---- MODULE Spec2Model ----
(***************************************************************************)
(* A model of the CustomTkinter Validator analysis core: the scoring and   *)
(* report aggregator (reporting/json_serializer.py), the rule engine       *)
(* (reporting/rule_engine.py), the widget registry                         *)
(* (test_harness/widget_registry.py), the test runner (core/runner.py) and *)
(* the checkers' use of the snapshot and of the configuration.             *)
(*                                                                         *)
(* Numbers.  Category scores and deductions are whole points.  The         *)
(* interaction score is kept in hundredths of a point (it is rounded to    *)
(* two decimals by the code), and the overall score in 1/10000 of a point, *)
(* so that the weights 0.30/0.40/0.30 and the UX factor 0.15 are the       *)
(* integers 30/40/30 and 15 (hundredths).                                  *)
(***************************************************************************)
EXTENDS Integers, Sequences, FiniteSets, TLC

VARIABLES
    severity_deductions,  \* ValidatorConfig.severity_deductions (a dict)
    violations,           \* a list of RuleViolation objects handed to the scorers
    engine_score,         \* last result of RuleEngine.compute_score, or None
    category_score,       \* last result of JsonSerializer._compute_category_score, or None
    layout_violations,    \* build_report's arguments: the six violation lists,
    contrast_issues,
    accessibility_issues,
    ux_issues,
    consistency_issues,
    rule_violations,
    interaction_results,  \*   the simulator's results (success flags)
    clock,                \* the wall clock datetime.now() reads
    overall_score,        \* build_report's local overall_score (line 105), or None
    report,               \* the report of the latest build_report call, or None
    prev_report,          \* the report of the build_report call before it, or None
    rules,                \* RuleEngine._rules, the registered Rule objects in order
    engine_result,        \* what the latest RuleEngine call returned
    disabled_ids,         \* history: ids disabled by disable_rule and not enabled since
    id_to_widget,         \* WidgetRegistry._id_to_widget
    widget_id_to_test_id, \* WidgetRegistry._widget_id_to_test_id, keyed by id(widget)
    registry_call,        \* history: the latest registry call and what it raised
    registry_before,      \* history: both maps as they were before that call
    config_attrs,         \* the attributes the ValidatorConfig instance has
    heap,                 \* the dict objects alive: address -> dict
    widget_tree,          \* the address of the snapshot's root node
    tree_before,          \* history: the snapshot's nodes as the extractor built them
    flat,                 \* the addresses of the copies the latest _flatten made
    checker_outcome,      \* per component: not run, returned, or the error raised
    settings_read,        \* the configuration attributes the components have read
    runner_root,          \* TestRunner._root
    runner_report,        \* TestRunner._report
    runner_call,          \* history: the latest TestRunner call, what it raised
                          \*   and the report it returned
    set_app_called,       \* history: set_app has been called
    analysed,             \* history: an analyse call has completed successfully
    check_result,         \* the latest single check run on the snapshot: its
                          \*   name, the setting it ran under, what it returned
    live,                 \* the live widgets: handle -> type, viewable, state,
                          \*   root coordinates
    focus_first,          \* what root.tk_focusNext() gives
    focus_next,           \* what widget.tk_focusNext() gives, per handle
    tab_pc,               \* where a compute_tab_order call stands
    tab_current,          \* _compute_tk_tab_order's local current
    tab_visited,          \* its local visited, the test ids
    tab_visited_ids,      \* its local visited_ids
    tab_visits,           \* history: the handles the loop has visited, in order
    tab_result            \* what compute_tab_order returned

scoreVars == << violations, engine_score, category_score >>
reportVars == << layout_violations, contrast_issues, accessibility_issues,
                 ux_issues, consistency_issues, rule_violations,
                 interaction_results, clock, overall_score, report, prev_report >>

ruleVars == << rules, engine_result, disabled_ids >>

registryVars == << id_to_widget, widget_id_to_test_id, registry_call,
                   registry_before >>

passVars == << config_attrs, heap, widget_tree, tree_before, flat,
               checker_outcome, settings_read >>

runnerVars == << runner_root, runner_report, runner_call, set_app_called,
                 analysed >>

checkVars == << check_result >>

tabVars == << live, focus_first, focus_next, tab_pc, tab_current, tab_visited,
              tab_visited_ids, tab_visits, tab_result >>

vars == << severity_deductions, scoreVars, reportVars, ruleVars, registryVars,
           passVars, runnerVars, checkVars, tabVars >>

None == "None"

\* Python's None where a number is expected, and where a report is expected
NoScore == 0 - 1
NoReport == [absent |-> TRUE]

\* what a call returned: the method called and, for one that returns a list,
\* the list (Python's None otherwise)
Returned(method, list) == [method |-> method, value |-> list]

\* ------------------------------------------------------------------ bounds

\* longest violation list handed to a scorer
MaxViolations == 5

\* most interaction attempts recorded by the simulator
MaxInteractions == 2

\* latest instant of the wall clock
MaxClock == 2

\* ------------------------------------------------------------ configuration

\* config.py:48-55, the default severity_deductions
DefaultDeductions ==
    [s \in {"critical", "high", "medium", "low"} |->
        CASE s = "critical" -> 25
          [] s = "high" -> 15
          [] s = "medium" -> 10
          [] OTHER -> 5]

\* a configuration whose table was overridden and lacks two of the levels
CustomDeductions ==
    [s \in {"critical", "high"} |-> IF s = "critical" THEN 40 ELSE 20]

DeductionTables == {DefaultDeductions, CustomDeductions}

\* the severities a violation may carry: the four levels and one unknown string
Severities == {"critical", "high", "medium", "low", "info"}

\* config.py:92-101: self.severity_deductions.get(severity, 5.0)
get_severity_deduction(table, severity) ==
    IF severity \in DOMAIN table THEN table[severity] ELSE 5

\* ------------------------------------------------------------------ helpers

Max(a, b) == IF a >= b THEN a ELSE b
Min(a, b) == IF a <= b THEN a ELSE b

RECURSIVE SumSeq(_)
SumSeq(s) == IF s = << >> THEN 0 ELSE Head(s) + SumSeq(Tail(s))

\* ---------------------------------------------------------------- violations

\* rule_engine.py:16-32, a RuleViolation object (the texts are left out)
RuleViolation(sev) == [rule_id |-> "rule", severity |-> sev, widget_id |-> "w"]

\* rule_engine.py:34-46, RuleViolation.to_dict
to_dict(v) == [k \in {"rule_id", "severity", "widget_id"} |-> v[k]]

to_dicts(vs) == [i \in 1..Len(vs) |-> to_dict(vs[i])]

\* ------------------------------------------------------------------ scoring

\* the scorer without its floor at 0
compute_category_score_no_floor(table, dicts) ==
    LET sev(d) == IF "severity" \in DOMAIN d THEN d["severity"] ELSE "low"
        deduction == SumSeq([i \in 1..Len(dicts) |->
                               get_severity_deduction(table, sev(dicts[i]))])
    IN  Min(100, 100 - deduction)

\* json_serializer.py:174-190: v.get("severity", "low") per dict, summed, clamped
compute_category_score(table, dicts) ==
    LET sev(d) == IF "severity" \in DOMAIN d THEN d["severity"] ELSE "low"
        deduction == SumSeq([i \in 1..Len(dicts) |->
                               get_severity_deduction(table, sev(dicts[i]))])
    IN  Max(0, Min(100, 100 - deduction))

\* the engine's scorer looking severities up without the default of 5
compute_score_known_only(table, vs) ==
    LET total_deduction == SumSeq([i \in 1..Len(vs) |->
                               IF vs[i].severity \in DOMAIN table
                               THEN table[vs[i].severity] ELSE 0])
    IN  Max(0, Min(100, 100 - total_deduction))

\* rule_engine.py:138-154: v.severity per object, summed, clamped
compute_score(table, vs) ==
    LET total_deduction == SumSeq([i \in 1..Len(vs) |->
                               get_severity_deduction(table, vs[i].severity)])
    IN  Max(0, Min(100, 100 - total_deduction))

\* ------------------------------------------------- specification: the scorers

ReportIdle ==
    /\ layout_violations = << >>
    /\ contrast_issues = << >>
    /\ accessibility_issues = << >>
    /\ ux_issues = << >>
    /\ consistency_issues = << >>
    /\ rule_violations = << >>
    /\ interaction_results = << >>
    /\ clock = 0
    /\ overall_score = NoScore
    /\ report = NoReport
    /\ prev_report = NoReport

ScoreIdle ==
    /\ violations = << >>
    /\ engine_score = NoScore
    /\ category_score = NoScore

RulesIdle ==
    /\ rules = << >>
    /\ engine_result = Returned(None, << >>)
    /\ disabled_ids = {}

\* widget_registry.py:22-25, an empty registry
RegistryIdle ==
    /\ id_to_widget = << >>
    /\ widget_id_to_test_id = << >>
    /\ registry_call = [op |-> "__init__", test_id |-> None, widget |-> None,
                        raised |-> None]
    /\ registry_before = [id_to_widget |-> << >>, widget_id_to_test_id |-> << >>]

\* config.py:36-90, the fields of the ValidatorConfig dataclass
ValidatorConfigFields ==
    { "min_contrast_ratio_normal", "min_contrast_ratio_large",
      "large_text_threshold_pt", "large_text_bold_threshold_pt",
      "min_touch_target_px", "min_padding_px", "overlap_tolerance_px",
      "alignment_tolerance_px", "symmetry_tolerance_px",
      "score_weight_layout", "score_weight_accessibility",
      "score_weight_interaction", "severity_deductions",
      "container_widget_types", "internal_attr_names", "appearance_mode",
      "max_tree_depth" }

\* the components of an analysis pass (runner.py:145-163)
Components ==
    { "LayoutMetrics.analyse", "ContrastChecker.check",
      "AccessibilityChecker.check", "UXAnalyzer.analyse",
      "ConsistencyChecker.check", "RuleEngine.evaluate",
      "JsonSerializer.build_report" }

\* no snapshot extracted, no component run, a default ValidatorConfig()
PassIdle ==
    /\ config_attrs = ValidatorConfigFields
    /\ heap = << >>
    /\ widget_tree = 0
    /\ tree_before = << >>
    /\ flat = << >>
    /\ checker_outcome = [c \in Components |-> "not run"]
    /\ settings_read = {}

RunnerCall(op, raised, returned) ==
    [op |-> op, raised |-> raised, returned |-> returned]

\* what a single check returned: the check, the setting it ran under, its list
Checked(check, setting, value) ==
    [check |-> check, setting |-> setting, value |-> value]

\* no check has run
CheckIdle == check_result = Checked(None, 0, << >>)

\* no live widget looked at, no tab order asked for
TabIdle ==
    /\ live = << >>
    /\ focus_first = None
    /\ focus_next = << >>
    /\ tab_pc = "idle"
    /\ tab_current = None
    /\ tab_visited = << >>
    /\ tab_visited_ids = {}
    /\ tab_visits = << >>
    /\ tab_result = << >>

\* runner.py:44-63, a new TestRunner: no application, no report
RunnerIdle ==
    /\ runner_root = None
    /\ runner_report = NoReport
    /\ runner_call = RunnerCall("__init__", None, NoReport)
    /\ set_app_called = FALSE
    /\ analysed = FALSE

InitScore ==
    /\ ReportIdle
    /\ RulesIdle
    /\ RegistryIdle
    /\ PassIdle
    /\ RunnerIdle
    /\ CheckIdle
    /\ TabIdle
    /\ severity_deductions \in DeductionTables
    /\ violations = << >>
    /\ engine_score = NoScore
    /\ category_score = NoScore

\* a checker or rule reports one more violation
AppendViolation ==
    /\ Len(violations) < MaxViolations
    /\ \E s \in Severities : violations' = Append(violations, RuleViolation(s))
    /\ UNCHANGED << passVars, runnerVars >>
    /\ UNCHANGED << tabVars, checkVars, severity_deductions, engine_score, category_score,
                    reportVars, ruleVars, registryVars >>

\* both scorers are run on the current list
ComputeScores ==
    /\ engine_score' = compute_score(severity_deductions, violations)
    /\ category_score' =
          compute_category_score(severity_deductions, to_dicts(violations))
    /\ UNCHANGED << passVars, runnerVars >>
    /\ UNCHANGED << tabVars, checkVars, severity_deductions, violations, reportVars, ruleVars,
                    registryVars >>

NextScore == AppendViolation \/ ComputeScores

SpecScore == InitScore /\ [][NextScore]_vars

\* ------------------------------------------------------------ the aggregator

\* config.py:45-47, the weights 0.30 / 0.40 / 0.30 in hundredths
score_weight_layout == 30
score_weight_accessibility == 40
score_weight_interaction == 30

\* json_serializer.py:104, the factor 0.15 of the UX penalty in hundredths
ux_penalty_weight == 15

\* Python's round(n / d, 0) for n >= 0: to nearest, ties to even
RoundHalfEven(n, d) ==
    LET q == n \div d
        r == n % d
    IN  IF 2 * r < d THEN q
        ELSE IF 2 * r > d THEN q + 1
        ELSE IF q % 2 = 0 THEN q ELSE q + 1

\* event_simulator.py:29-43, an InteractionResult (the texts are left out)
InteractionResult(ok) == [action |-> "click", widget_id |-> "w", success |-> ok]

\* a variant that cuts the score off after two decimals
compute_interaction_score_truncated(results) ==
    IF results = << >> THEN 10000
    ELSE LET successes ==
                 Cardinality({i \in 1..Len(results) : results[i].success})
         IN  (successes * 10000) \div Len(results)

\* json_serializer.py:192-208, in hundredths of a point
compute_interaction_score(results) ==
    IF results = << >> THEN 10000
    ELSE LET successes ==
                 Cardinality({i \in 1..Len(results) : results[i].success})
         IN  RoundHalfEven(successes * 10000, Len(results))

\* the layout score computed without the consistency issues
layout_score_of_layout_only(table, layout, consistency) ==
    compute_category_score(table, to_dicts(layout))

\* json_serializer.py:84-87
layout_score_of(table, layout, consistency) ==
    compute_category_score(table, to_dicts(layout) \o to_dicts(consistency))

\* json_serializer.py:88-91
accessibility_score_of(table, contrast, accessibility) ==
    compute_category_score(table, to_dicts(contrast) \o to_dicts(accessibility))

\* json_serializer.py:92-95
ux_score_of(table, ux, rule_list) ==
    compute_category_score(table, to_dicts(ux) \o to_dicts(rule_list))

\* the overall score without its floor at 0
overall_score_of_no_floor(layout_score, accessibility_score, ux_score, interaction_score) ==
    score_weight_layout * layout_score * 100
    + score_weight_accessibility * accessibility_score * 100
    + score_weight_interaction * interaction_score
    - (100 - ux_score) * 100 * ux_penalty_weight

\* json_serializer.py:98-105, in 1/10000 of a point
overall_score_of(layout_score, accessibility_score, ux_score, interaction_score) ==
    LET weighted == score_weight_layout * layout_score * 100
                    + score_weight_accessibility * accessibility_score * 100
                    + score_weight_interaction * interaction_score
        ux_penalty == (100 - ux_score) * 100 * ux_penalty_weight
    IN  Max(0, weighted - ux_penalty)

\* json_serializer.py:156-172
build_metadata(now, tab_order) ==
    [tool |-> "CustomTkinter Validator", version |-> "2.0.0",
     timestamp |-> now, tab_order |-> tab_order]

\* json_serializer.py:56-126; the summary holds round(x, 2), in hundredths
build_report(table, now, layout, contrast, accessibility, ux, consistency, rule_list, interactions) ==
    LET layout_score == layout_score_of(table, layout, consistency)
        accessibility_score == accessibility_score_of(table, contrast, accessibility)
        ux_score == ux_score_of(table, ux, rule_list)
        interaction_score == compute_interaction_score(interactions)
        overall == overall_score_of(layout_score, accessibility_score,
                                    ux_score, interaction_score)
    IN  [metadata |-> build_metadata(now, << >>),
         widget_tree |-> "tree",
         layout_violations |-> to_dicts(layout),
         contrast_issues |-> to_dicts(contrast),
         accessibility_issues |-> to_dicts(accessibility),
         ux_issues |-> to_dicts(ux),
         consistency_issues |-> to_dicts(consistency),
         rule_violations |-> to_dicts(rule_list),
         interaction_results |-> interactions,
         summary_score |->
            [layout_score |-> layout_score * 100,
             accessibility_score |-> accessibility_score * 100,
             ux_score |-> ux_score * 100,
             interaction_score |-> interaction_score,
             overall_score |-> RoundHalfEven(overall, 100)]]

\* json_serializer.py:128-138, json.dumps of the report: every section in order
serialise(r) ==
    << r.metadata, r.widget_tree, r.layout_violations, r.contrast_issues,
       r.accessibility_issues, r.ux_issues, r.consistency_issues,
       r.rule_violations, r.interaction_results, r.summary_score >>

\* --------------------------------------------- specification: the aggregator

SevList(sevs) == [i \in 1..Len(sevs) |-> RuleViolation(sevs[i])]

\* the violation lists a checker hands over
ViolationLists ==
    { SevList(<< >>),
      SevList(<< "low", "info" >>),
      SevList(<< "critical", "critical", "high", "medium" >>) }

RECURSIVE SeqsUpTo(_, _)
SeqsUpTo(S, n) ==
    IF n = 0 THEN { << >> }
    ELSE LET shorter == SeqsUpTo(S, n - 1)
         IN  shorter \cup { Append(q, x) : q \in shorter, x \in S }

InteractionLists ==
    { [i \in 1..Len(q) |-> InteractionResult(q[i])] :
        q \in SeqsUpTo(BOOLEAN, MaxInteractions) }

InitReport ==
    /\ severity_deductions = DefaultDeductions
    /\ ScoreIdle
    /\ RulesIdle
    /\ RegistryIdle
    /\ PassIdle
    /\ RunnerIdle
    /\ CheckIdle
    /\ TabIdle
    /\ layout_violations \in ViolationLists
    /\ contrast_issues \in ViolationLists
    /\ accessibility_issues \in ViolationLists
    /\ ux_issues \in ViolationLists
    /\ consistency_issues \in ViolationLists
    /\ rule_violations \in ViolationLists
    /\ interaction_results \in InteractionLists
    /\ clock = 0
    /\ overall_score = NoScore
    /\ report = NoReport
    /\ prev_report = NoReport

reportInputs == << layout_violations, contrast_issues, accessibility_issues,
                   ux_issues, consistency_issues, rule_violations,
                   interaction_results >>

\* time passes
Tick ==
    /\ clock < MaxClock
    /\ clock' = clock + 1
    /\ UNCHANGED << passVars, runnerVars >>
    /\ UNCHANGED << tabVars, checkVars, severity_deductions, scoreVars, ruleVars, registryVars,
                    reportInputs, overall_score, report, prev_report >>

\* JsonSerializer.build_report on the current lists
BuildReport ==
    /\ report' = build_report(severity_deductions, clock, layout_violations,
                              contrast_issues, accessibility_issues, ux_issues,
                              consistency_issues, rule_violations,
                              interaction_results)
    /\ overall_score' =
          overall_score_of(
              layout_score_of(severity_deductions, layout_violations,
                              consistency_issues),
              accessibility_score_of(severity_deductions, contrast_issues,
                                     accessibility_issues),
              ux_score_of(severity_deductions, ux_issues, rule_violations),
              compute_interaction_score(interaction_results))
    /\ prev_report' = report
    /\ UNCHANGED << passVars, runnerVars >>
    /\ UNCHANGED << tabVars, checkVars, severity_deductions, scoreVars, ruleVars, registryVars,
                    reportInputs, clock >>

NextReport == Tick \/ BuildReport

SpecReport == InitReport /\ [][NextReport]_vars

\* ------------------------------------------------------- claims on the scores

\* the deduction table the documentation states: 25 / 15 / 10 / 5, and 5 for
\* a severity outside the four levels
StatedDeduction(sev) ==
    CASE sev = "critical" -> 25
      [] sev = "high" -> 15
      [] sev = "medium" -> 10
      [] OTHER -> 5

StatedSum(dicts) == SumSeq([i \in 1..Len(dicts) |-> StatedDeduction(dicts[i].severity)])

Clamp(x, lo, hi) == IF x < lo THEN lo ELSE IF x > hi THEN hi ELSE x

\* C1: a category score never increases when one more violation of any
\* severity is added to its list, and it always lies within 0..100.
C1_ScoreMonotoneBounded ==
    LET L == to_dicts(violations)
        score(x) == compute_category_score(severity_deductions, x)
    IN  /\ 0 <= score(L)
        /\ score(L) <= 100
        /\ \A s \in Severities :
              score(Append(L, to_dict(RuleViolation(s)))) <= score(L)
        /\ category_score # NoScore => category_score \in 0..100

\* five violations of mixed severity whose deductions exceed 100 were scored 0
C1_Witness ==
    /\ category_score = 0
    /\ Len(violations) = 5
    /\ \E i, j \in 1..Len(violations) :
          violations[i].severity = "critical" /\ violations[j].severity = "low"
    /\ category_score =
          compute_category_score(severity_deductions, to_dicts(violations))

\* C6: RuleEngine.compute_score and the aggregator's category scoring give the
\* same number for every violation list under the same configuration.
C6_SameScore ==
    /\ compute_score(severity_deductions, violations)
          = compute_category_score(severity_deductions, to_dicts(violations))
    /\ engine_score = category_score

\* a list holding a severity outside the four levels was scored by both
C6_Witness ==
    /\ engine_score # NoScore
    /\ engine_score = compute_score(severity_deductions, violations)
    /\ engine_score < 100
    /\ \E i \in 1..Len(violations) : violations[i].severity = "info"
    /\ \E i \in 1..Len(violations) : violations[i].severity = "medium"

\* C2: in a report each category score is clamp(100 - sum of the deductions
\* 25/15/10/5, 0, 100) over exactly its two lists: layout over layout and
\* consistency, accessibility over contrast and accessibility, ux over ux and
\* rule violations.
C2_CategoryScores ==
    report # NoReport =>
        /\ report.summary_score.layout_score =
              100 * Clamp(100 - StatedSum(report.layout_violations)
                              - StatedSum(report.consistency_issues), 0, 100)
        /\ report.summary_score.accessibility_score =
              100 * Clamp(100 - StatedSum(report.contrast_issues)
                              - StatedSum(report.accessibility_issues), 0, 100)
        /\ report.summary_score.ux_score =
              100 * Clamp(100 - StatedSum(report.ux_issues)
                              - StatedSum(report.rule_violations), 0, 100)
        /\ report.layout_violations = to_dicts(layout_violations)
        /\ report.consistency_issues = to_dicts(consistency_issues)
        /\ report.contrast_issues = to_dicts(contrast_issues)
        /\ report.accessibility_issues = to_dicts(accessibility_issues)
        /\ report.ux_issues = to_dicts(ux_issues)
        /\ report.rule_violations = to_dicts(rule_violations)

\* a report whose layout lists deduct 150 (score 0) while the accessibility
\* lists are empty (score 100) and the ux lists deduct 10
C2_Witness ==
    /\ report # NoReport
    /\ Len(layout_violations) = 4
    /\ Len(consistency_issues) = 4
    /\ report.summary_score.layout_score = 0
    /\ report.summary_score.accessibility_score = 10000
    /\ report.summary_score.ux_score = 9000

C4_ByteIdentical ==
    (report # NoReport /\ prev_report # NoReport) =>
        serialise(report) = serialise(prev_report)

\* ------------------------------------------------------------ the rule engine

\* most rules registered with add_rule
MaxCustomRules == 2

\* rule_engine.py:156-201, the built-in rules in registration order
BuiltinRuleIds ==
    << "hidden_interactive", "empty_text_button", "excessive_nesting",
       "zero_dimension_widget", "disabled_without_reason",
       "text_content_quality" >>

\* rule_engine.py:52-68, a Rule object; check names the rule function
Rule(id, on, fn) == [rule_id |-> id, enabled |-> on, check |-> fn]

\* rule_engine.py:156-201: every built-in rule is registered enabled
register_builtin_rules ==
    [i \in 1..Len(BuiltinRuleIds) |->
        Rule(BuiltinRuleIds[i], TRUE, BuiltinRuleIds[i])]

\* the ids a caller registers rules under: a new one, and one of a built-in rule
CustomRuleIds == {"custom", "hidden_interactive"}

\* the ids a caller toggles: every registered id and one that is not registered
ToggleIds ==
    {BuiltinRuleIds[i] : i \in 1..Len(BuiltinRuleIds)} \cup {"custom", "unknown"}

\* rule_engine.py:222-479: what a rule function returns for the analysed tree;
\* the severity is the one the rule function gives its violations
RuleSeverity(fn) ==
    CASE fn = "hidden_interactive" -> "high"
      [] fn = "empty_text_button" -> "medium"
      [] fn = "excessive_nesting" -> "low"
      [] fn = "zero_dimension_widget" -> "medium"
      [] fn = "disabled_without_reason" -> "low"
      [] fn = "text_content_quality" -> "medium"
      [] OTHER -> "info"

rule_check(fn) ==
    IF fn = "excessive_nesting" THEN << >>
    ELSE << [rule_id |-> fn, severity |-> RuleSeverity(fn), widget_id |-> "w"] >>

\* index of the first rule registered under id, 0 when there is none
FirstWithId(rs, id) ==
    IF \E i \in 1..Len(rs) : rs[i].rule_id = id
    THEN CHOOSE i \in 1..Len(rs) :
            /\ rs[i].rule_id = id
            /\ \A j \in 1..(i - 1) : rs[j].rule_id # id
    ELSE 0

\* rule_engine.py:101-121: the loop returns after the first rule with the id
set_enabled(rs, id, on) ==
    LET i == FirstWithId(rs, id)
    IN  IF i = 0 THEN rs ELSE [rs EXCEPT ![i].enabled = on]

\* rule_engine.py:123-136
RECURSIVE evaluate(_)
evaluate(rs) ==
    IF rs = << >> THEN << >>
    ELSE (IF Head(rs).enabled THEN rule_check(Head(rs).check) ELSE << >>)
         \o evaluate(Tail(rs))

InitRules ==
    /\ severity_deductions = DefaultDeductions
    /\ ScoreIdle
    /\ ReportIdle
    /\ RegistryIdle
    /\ PassIdle
    /\ RunnerIdle
    /\ CheckIdle
    /\ TabIdle
    /\ rules = register_builtin_rules
    /\ engine_result = Returned("__init__", << >>)
    /\ disabled_ids = {}

\* rule_engine.py:93-99
add_rule ==
    /\ Len(rules) < Len(BuiltinRuleIds) + MaxCustomRules
    /\ \E id \in CustomRuleIds, on \in BOOLEAN :
          rules' = Append(rules, Rule(id, on, "custom_check"))
    /\ engine_result' = Returned("add_rule", << >>)
    /\ UNCHANGED << passVars, runnerVars >>
    /\ UNCHANGED << tabVars, checkVars, severity_deductions, scoreVars, reportVars, registryVars,
                    disabled_ids >>

\* rule_engine.py:101-110
enable_rule ==
    /\ \E id \in ToggleIds :
          /\ rules' = set_enabled(rules, id, TRUE)
          /\ disabled_ids' = disabled_ids \ {id}
    /\ engine_result' = Returned("enable_rule", << >>)
    /\ UNCHANGED << passVars, runnerVars >>
    /\ UNCHANGED << tabVars, checkVars, severity_deductions, scoreVars, reportVars, registryVars >>

\* rule_engine.py:112-121; the history records a call that names a registered id
disable_rule ==
    /\ \E id \in ToggleIds :
          /\ rules' = set_enabled(rules, id, FALSE)
          /\ disabled_ids' =
                IF FirstWithId(rules, id) # 0 THEN disabled_ids \cup {id}
                ELSE disabled_ids
    /\ engine_result' = Returned("disable_rule", << >>)
    /\ UNCHANGED << passVars, runnerVars >>
    /\ UNCHANGED << tabVars, checkVars, severity_deductions, scoreVars, reportVars, registryVars >>

\* rule_engine.py:123-136
Evaluate ==
    /\ engine_result' = Returned("evaluate", evaluate(rules))
    /\ UNCHANGED << passVars, runnerVars >>
    /\ UNCHANGED << tabVars, checkVars, severity_deductions, scoreVars, reportVars, registryVars,
                    rules, disabled_ids >>

NextRules == add_rule \/ enable_rule \/ disable_rule \/ Evaluate

SpecRules == InitRules /\ [][NextRules]_vars

\* C5: evaluate returns the outputs of the enabled rules in registration
\* order, and between disable_rule(id) and the next enable_rule(id) no rule
\* registered under that id contributes a violation.
C5_DisabledIdSilent ==
    /\ engine_result.method = "evaluate" =>
          engine_result.value = evaluate(rules)
    /\ \A i \in 1..Len(rules) :
          rules[i].rule_id \in disabled_ids => ~rules[i].enabled

\* --------------------------------------------------------- the widget registry

\* the test_ids and the live widgets (by identity) of a run
TestIds == {"a", "b"}
Widgets == {"w1", "w2"}

\* dict.get(key): the value, or None
DictGet(d, k) == IF k \in DOMAIN d THEN d[k] ELSE None

\* d[key] = value
DictSet(d, k, v) == (k :> v) @@ d

\* dict.pop(key, None): the dict without the key
DictPop(d, k) == [x \in DOMAIN d \ {k} |-> d[x]]

\* widget_registry.py:46-55
registry_get(test_id) == DictGet(id_to_widget, test_id)

\* widget_registry.py:57-66
registry_get_id(widget) == DictGet(widget_id_to_test_id, widget)

\* widget_registry.py:37-38, the guard of the ValueError
register_raises(test_id, widget) ==
    LET existing == DictGet(id_to_widget, test_id)
    IN  existing # None /\ existing # widget

RegistryCall(op, test_id, widget, raised) ==
    [op |-> op, test_id |-> test_id, widget |-> widget, raised |-> raised]

RegistryMaps ==
    [id_to_widget |-> id_to_widget, widget_id_to_test_id |-> widget_id_to_test_id]

InitRegistry ==
    /\ severity_deductions = DefaultDeductions
    /\ ScoreIdle
    /\ ReportIdle
    /\ RulesIdle
    /\ RegistryIdle
    /\ PassIdle
    /\ RunnerIdle
    /\ CheckIdle
    /\ TabIdle

\* widget_registry.py:27-44
register ==
    /\ \E t \in TestIds, w \in Widgets :
          IF register_raises(t, w)
          THEN /\ registry_call' = RegistryCall("register", t, w, "ValueError")
               /\ UNCHANGED << id_to_widget, widget_id_to_test_id >>
          ELSE /\ registry_call' = RegistryCall("register", t, w, None)
               /\ id_to_widget' = DictSet(id_to_widget, t, w)
               /\ widget_id_to_test_id' = DictSet(widget_id_to_test_id, w, t)
    /\ registry_before' = RegistryMaps
    /\ UNCHANGED << passVars, runnerVars >>
    /\ UNCHANGED << tabVars, checkVars, severity_deductions, scoreVars, reportVars, ruleVars >>

\* widget_registry.py:112-125
unregister ==
    /\ \E t \in TestIds :
          LET widget == DictGet(id_to_widget, t)
          IN  /\ registry_call' = RegistryCall("unregister", t, widget, None)
              /\ id_to_widget' = DictPop(id_to_widget, t)
              /\ widget_id_to_test_id' =
                    IF widget # None THEN DictPop(widget_id_to_test_id, widget)
                    ELSE widget_id_to_test_id
    /\ registry_before' = RegistryMaps
    /\ UNCHANGED << passVars, runnerVars >>
    /\ UNCHANGED << tabVars, checkVars, severity_deductions, scoreVars, reportVars, ruleVars >>

\* widget_registry.py:95-98
clear ==
    /\ registry_call' = RegistryCall("clear", None, None, None)
    /\ id_to_widget' = << >>
    /\ widget_id_to_test_id' = << >>
    /\ registry_before' = RegistryMaps
    /\ UNCHANGED << passVars, runnerVars >>
    /\ UNCHANGED << tabVars, checkVars, severity_deductions, scoreVars, reportVars, ruleVars >>

NextRegistry == register \/ unregister \/ clear

SpecRegistry == InitRegistry /\ [][NextRegistry]_vars

\* C7: register(test_id, w) raises ValueError when test_id is bound to another
\* widget and then leaves both maps as they were; registering the same widget
\* again under the same id succeeds and changes nothing.
C7_RegisterContract ==
    registry_call.op = "register" =>
        LET bound == DictGet(registry_before.id_to_widget, registry_call.test_id)
        IN  /\ (bound # None /\ bound # registry_call.widget) =>
                  /\ registry_call.raised = "ValueError"
                  /\ RegistryMaps = registry_before
            /\ bound = registry_call.widget =>
                  /\ registry_call.raised = None
                  /\ RegistryMaps = registry_before

\* ------------------------------------------- the snapshot and the checkers

\* attributes none of ValidatorConfig's fields, which a caller can still set on
\* an instance (the dataclass is not frozen, config.py:12)
ExtraAttrs ==
    { "widget_outside_bounds_tolerance_px", "inconsistent_size_tolerance_pct",
      "max_widgets_per_container", "max_button_text_length" }

\* a snapshot node as the extractor emits it: a dict with a "children" list
Node(test_id, widget_type, text, fg_color, bg_color, width, height, children) ==
    [test_id |-> test_id, widget_type |-> widget_type, text |-> text,
     fg_color |-> fg_color, bg_color |-> bg_color, width |-> width,
     height |-> height, children |-> children]

\* the node with a font; a node without these keys has a null font
\* (node.get("font_size") is None either way)
WithFont(node, size, weight) ==
    node @@ ("font_size" :> size) @@ ("font_weight" :> weight)

\* the snapshots of a run, as heaps of dict objects with the root at address 1:
\* a lone root of zero size with null colours and null font; a window with a
\* large-font label, a bold label and a button with a null colour and zero
\* size; a window holding a frame holding a button without a font
Snapshots ==
    { 1 :> Node("root", "CTk", "", None, None, 0, 0, << >>),
      (1 :> Node("root", "CTk", "", None, "#ffffff", 400, 300, << 2, 3, 4 >>))
        @@ (2 :> WithFont(Node("title", "CTkLabel", "Title", "#000000",
                               "#ffffff", 100, 20, << >>), 20, "normal"))
        @@ (3 :> WithFont(Node("hint", "CTkLabel", "Hint", "#888888",
                               "#ffffff", 100, 20, << >>), 14, "bold"))
        @@ (4 :> Node("ok", "CTkButton", "OK", None, "#0000ff", 0, 0, << >>)),
      (1 :> Node("root", "CTk", "", None, None, 400, 300, << 2 >>))
        @@ (2 :> Node("panel", "CTkFrame", "", None, None, 200, 100, << 3 >>))
        @@ (3 :> Node("go", "CTkButton", "Go", "#ffffff", "#777777", 80, 30,
                      << >>)) }

\* node.get("children", [])
children_of(node) ==
    IF "children" \in DOMAIN node THEN node["children"] ELSE << >>

\* layout_metrics.py:190 (and the same line of every _flatten): a new dict with
\* every item of the node but "children"
node_copy(node) == [k \in DOMAIN node \ {"children"} |-> node[k]]

\* the nodes _flatten visits, in its order: the node, then each child's subtree
RECURSIVE flatten_nodes(_, _)
RECURSIVE flatten_children(_, _)
flatten_nodes(h, a) ==
    IF DOMAIN h[a] = {} THEN << >>
    ELSE << a >> \o flatten_children(h, children_of(h[a]))

flatten_children(h, cs) ==
    IF cs = << >> THEN << >>
    ELSE flatten_nodes(h, Head(cs)) \o flatten_children(h, Tail(cs))

\* layout_metrics.py:178-194 (_flatten): the list of copies
flatten(h, a) ==
    LET visited == flatten_nodes(h, a)
    IN  [i \in 1..Len(visited) |-> node_copy(h[visited[i]])]

\* the snapshot's own objects in a heap
SnapshotAddrs == DOMAIN tree_before

\* where _flatten's i-th copy is allocated
copy_addr(i) == Cardinality(SnapshotAddrs) + i

\* a variant of _flatten that takes "children" out of the node itself
heap_after_flatten_in_place(h, a) ==
    LET visited == flatten_nodes(h, a)
        touched == { visited[i] : i \in 1..Len(visited) }
        copies == flatten(h, a)
    IN  [x \in SnapshotAddrs \cup { copy_addr(i) : i \in 1..Len(copies) } |->
            IF x \in touched THEN node_copy(h[x])
            ELSE IF x \in SnapshotAddrs THEN h[x]
            ELSE copies[x - Cardinality(SnapshotAddrs)]]

\* the heap once _flatten has returned: the snapshot's objects as they were,
\* the copies newly allocated (the copies of an earlier call are garbage)
heap_after_flatten(h, a) ==
    LET copies == flatten(h, a)
    IN  [x \in SnapshotAddrs \cup { copy_addr(i) : i \in 1..Len(copies) } |->
            IF x \in SnapshotAddrs THEN h[x]
            ELSE copies[x - Cardinality(SnapshotAddrs)]]

flat_addrs(h, a) == [i \in 1..Len(flatten(h, a)) |-> copy_addr(i)]

\* ------------------------------------------------ the configuration reads

large_text_threshold_pt == 18
large_text_bold_threshold_pt == 14

\* abs(int(size)) of a whole number
abs(n) == IF n < 0 THEN 0 - n ELSE n

\* str.lower() of a font weight
lower(weight) ==
    CASE weight \in {"bold", "Bold", "BOLD"} -> "bold"
      [] weight \in {"normal", "Normal", "NORMAL"} -> "normal"
      [] OTHER -> weight

\* contrast_checker.py:182-206, as the attributes _is_large_text reads and
\* what it returns
is_large_text(node) ==
    IF "font_size" \notin DOMAIN node
    THEN [reads |-> << >>, large |-> FALSE]
    ELSE LET size == abs(node["font_size"])
             weight == lower(IF "font_weight" \in DOMAIN node
                             THEN node["font_weight"] ELSE "normal")
         IN  IF size >= large_text_threshold_pt
             THEN [reads |-> << "large_text_threshold_pt" >>, large |-> TRUE]
             ELSE [reads |-> << "large_text_threshold_pt",
                                "large_text_bold_threshold_pt" >>,
                   large |-> /\ size >= large_text_bold_threshold_pt
                             /\ weight = "bold"]

\* contrast_checker.py:91-111, the attributes read for one node: none for a
\* node without text or with a null colour
contrast_reads_of(node) ==
    IF node["text"] = "" \/ node["fg_color"] = None \/ node["bg_color"] = None
    THEN << >>
    ELSE LET size == is_large_text(node)
         IN  size.reads \o
             << IF size.large THEN "min_contrast_ratio_large"
                ELSE "min_contrast_ratio_normal" >>

RECURSIVE ConcatAll(_)
ConcatAll(qs) == IF qs = << >> THEN << >> ELSE Head(qs) \o ConcatAll(Tail(qs))

\* the attributes of self._config a component reads on a snapshot, in the
\* order it reads them
config_reads(c, h, a) ==
    CASE c = "LayoutMetrics.analyse" ->
            << "overlap_tolerance_px", "min_padding_px", "min_touch_target_px",
               "alignment_tolerance_px", "symmetry_tolerance_px",
               "container_widget_types", "widget_outside_bounds_tolerance_px" >>
      [] c = "ContrastChecker.check" ->
            LET nodes == flatten(h, a)
            IN  ConcatAll([i \in 1..Len(nodes) |-> contrast_reads_of(nodes[i])])
      [] c = "AccessibilityChecker.check" -> << >>
      [] c = "UXAnalyzer.analyse" ->
            << "max_widgets_per_container", "max_button_text_length" >>
      [] c = "ConsistencyChecker.check" ->
            << "inconsistent_size_tolerance_pct",
               "inconsistent_size_tolerance_pct" >>
      [] c = "RuleEngine.evaluate" -> << >>
      [] c = "JsonSerializer.build_report" ->
            << "score_weight_layout", "score_weight_accessibility",
               "score_weight_interaction" >>

\* reading the attributes in order off a config that has the attributes attrs:
\* the first one it lacks raises AttributeError and ends the call
read_config(reads, attrs) ==
    LET missing == { i \in 1..Len(reads) : reads[i] \notin attrs }
    IN  IF missing = {}
        THEN [outcome |-> "returned",
              read |-> { reads[i] : i \in 1..Len(reads) }]
        ELSE LET first == CHOOSE i \in missing : \A j \in missing : i <= j
             IN  [outcome |-> "AttributeError",
                  read |-> { reads[i] : i \in 1..first }]

\* ------------------------------------------ specification: an analysis pass

\* a snapshot has been extracted; the config is a default ValidatorConfig() or
\* one the caller gave the extra attributes
InitPass ==
    /\ severity_deductions = DefaultDeductions
    /\ ScoreIdle
    /\ ReportIdle
    /\ RulesIdle
    /\ RegistryIdle
    /\ RunnerIdle
    /\ CheckIdle
    /\ TabIdle
    /\ config_attrs \in { ValidatorConfigFields,
                          ValidatorConfigFields \cup ExtraAttrs }
    /\ heap \in Snapshots
    /\ widget_tree = 1
    /\ tree_before = heap
    /\ flat = << >>
    /\ checker_outcome = [c \in Components |-> "not run"]
    /\ settings_read = {}

\* a checker's call on the snapshot: it flattens the tree, then reads its
\* settings as it checks; its violations are new objects of its own
run_checker(c) ==
    LET done == read_config(config_reads(c, heap, widget_tree), config_attrs)
    IN  /\ heap' = heap_after_flatten(heap, widget_tree)
        /\ flat' = flat_addrs(heap, widget_tree)
        /\ checker_outcome' = [checker_outcome EXCEPT ![c] = done.outcome]
        /\ settings_read' = settings_read \cup done.read
        /\ UNCHANGED << config_attrs, widget_tree, tree_before >>
        /\ UNCHANGED << tabVars, checkVars, severity_deductions, scoreVars, reportVars, ruleVars,
                        registryVars, runnerVars >>

\* layout_metrics.py:144-163
LayoutMetrics_analyse == run_checker("LayoutMetrics.analyse")

\* contrast_checker.py:79-137
ContrastChecker_check == run_checker("ContrastChecker.check")

\* accessibility_checker.py:92-107
AccessibilityChecker_check == run_checker("AccessibilityChecker.check")

\* ux_analyzer.py:99-122
UXAnalyzer_analyse == run_checker("UXAnalyzer.analyse")

\* consistency_checker.py:84-103
ConsistencyChecker_check == run_checker("ConsistencyChecker.check")

\* rule_engine.py:123-136, with the built-in rules: each rule flattens the tree
RuleEngine_evaluate == run_checker("RuleEngine.evaluate")

\* json_serializer.py:56-126 on the snapshot: the report holds a reference to
\* the tree; nothing is flattened
JsonSerializer_build_report ==
    LET c == "JsonSerializer.build_report"
        done == read_config(config_reads(c, heap, widget_tree), config_attrs)
    IN  /\ report' = build_report(severity_deductions, clock, layout_violations,
                                  contrast_issues, accessibility_issues,
                                  ux_issues, consistency_issues,
                                  rule_violations, interaction_results)
        /\ prev_report' = report
        /\ checker_outcome' = [checker_outcome EXCEPT ![c] = done.outcome]
        /\ settings_read' = settings_read \cup done.read
        /\ UNCHANGED << config_attrs, heap, widget_tree, tree_before, flat >>
        /\ UNCHANGED << tabVars, checkVars, severity_deductions, scoreVars, ruleVars, registryVars,
                        runnerVars, reportInputs, clock, overall_score >>

NextPass ==
    \/ LayoutMetrics_analyse
    \/ ContrastChecker_check
    \/ AccessibilityChecker_check
    \/ UXAnalyzer_analyse
    \/ ConsistencyChecker_check
    \/ RuleEngine_evaluate
    \/ JsonSerializer_build_report

SpecPass == InitPass /\ [][NextPass]_vars

\* the checkers of a pass
Checkers ==
    { "LayoutMetrics.analyse", "ContrastChecker.check",
      "ConsistencyChecker.check", "UXAnalyzer.analyse", "RuleEngine.evaluate" }

\* C9: with a default-constructed ValidatorConfig, every checker that has run
\* on the snapshot has returned its list of violations (none has ended with an
\* error), and every configuration attribute read is a field of ValidatorConfig.
C9_DegradeNeverAbort ==
    config_attrs = ValidatorConfigFields =>
        /\ \A c \in Checkers : checker_outcome[c] \in {"not run", "returned"}
        /\ settings_read \subseteq ValidatorConfigFields

\* the snapshot's nodes as they are now
tree_now == [x \in SnapshotAddrs |-> heap[x]]

\* C10: whichever components have run on the snapshot, in whatever order, the
\* widget tree (every node, every field, the order of the children) equals the
\* tree the extractor built.
C10_SnapshotUnchanged ==
    /\ tree_now = tree_before
    /\ widget_tree = 1

\* every component has run to completion on a snapshot with nested children,
\* and the latest _flatten's copies are alive beside the tree
C10_Witness ==
    /\ \A c \in Components : checker_outcome[c] = "returned"
    /\ Len(flat) = 3
    /\ \E x \in SnapshotAddrs : tree_now[x]["children"] # << >>
    /\ \A i \in 1..Len(flat) : "children" \notin DOMAIN heap[flat[i]]
    /\ report # NoReport

\* ------------------------------------------------------------ the test runner

\* the applications a runner is attached to: one whose widgets carry distinct
\* test ids, one in which two widgets carry the same explicit test id
Apps == {"app", "app_duplicate_ids"}

\* the interaction scripts handed to simulate: none, one click that succeeds,
\* one click in which Tk raises TclError, one click on an id the registry
\* does not hold
Scripts == {None, "click_ok", "click_fails", "click_unknown"}

\* runner.py:145-163, the order in which analyse calls the components
PassOrder ==
    << "LayoutMetrics.analyse", "ContrastChecker.check",
       "AccessibilityChecker.check", "UXAnalyzer.analyse",
       "ConsistencyChecker.check", "RuleEngine.evaluate",
       "JsonSerializer.build_report" >>

\* runner.py:145-163: the components run in order until one raises
run_pass(h, a, attrs) ==
    LET res == [i \in 1..Len(PassOrder) |->
                    read_config(config_reads(PassOrder[i], h, a), attrs)]
        failed == { i \in 1..Len(PassOrder) : res[i].outcome # "returned" }
        last == IF failed = {} THEN Len(PassOrder)
                ELSE CHOOSE i \in failed : \A j \in failed : i <= j
    IN  [raised |-> IF failed = {} THEN None ELSE res[last].outcome,
         outcome |-> [c \in Components |->
                        IF \E i \in 1..last : PassOrder[i] = c
                        THEN res[CHOOSE i \in 1..last : PassOrder[i] = c].outcome
                        ELSE checker_outcome[c]],
         read |-> UNION { res[i].read : i \in 1..last }]

\* event_simulator.py:85-129: the results after a script has run; a click on
\* an unknown id returns its failure without recording it
results_after(script) ==
    IF script \in {None, "click_unknown"} THEN interaction_results
    ELSE Append(interaction_results, InteractionResult(script = "click_ok"))

\* injector.py:36-53 on the registry: cleared, then every widget registered
\* until a register raises
registry_after_inject(app) ==
    IF app = "app"
    THEN [raised |-> None,
          before |-> [id_to_widget |-> ("a" :> "w1"),
                      widget_id_to_test_id |-> ("w1" :> "a")],
          call |-> RegistryCall("register", "b", "w2", None),
          id_to_widget |-> ("a" :> "w1") @@ ("b" :> "w2"),
          widget_id_to_test_id |-> ("w1" :> "a") @@ ("w2" :> "b")]
    ELSE [raised |-> "ValueError",
          before |-> [id_to_widget |-> ("a" :> "w1"),
                      widget_id_to_test_id |-> ("w1" :> "a")],
          call |-> RegistryCall("register", "a", "w2", "ValueError"),
          id_to_widget |-> ("a" :> "w1"),
          widget_id_to_test_id |-> ("w1" :> "a")]

\* a variant of the guard that tests self._root where the code tests
\* self._report
report_missing_by_root == runner_root = None

\* runner.py:180 and 193, the guard of save_report and print_report
report_missing == runner_report = NoReport

\* the attached application's tree as the extractor builds it; the config is
\* a default ValidatorConfig() or one the caller gave the extra attributes
InitRunner ==
    /\ severity_deductions = DefaultDeductions
    /\ ScoreIdle
    /\ ReportIdle
    /\ RulesIdle
    /\ RegistryIdle
    /\ RunnerIdle
    /\ CheckIdle
    /\ TabIdle
    /\ config_attrs \in { ValidatorConfigFields,
                          ValidatorConfigFields \cup ExtraAttrs }
    /\ heap \in Snapshots
    /\ widget_tree = 1
    /\ tree_before = heap
    /\ flat = << >>
    /\ checker_outcome = [c \in Components |-> "not run"]
    /\ settings_read = {}

\* runner.py:85-91
set_app ==
    /\ \E app \in Apps : runner_root' = app
    /\ set_app_called' = TRUE
    /\ runner_call' = RunnerCall("set_app", None, NoReport)
    /\ UNCHANGED << runner_report, analysed, passVars >>
    /\ UNCHANGED << tabVars, checkVars, severity_deductions, scoreVars, reportVars, ruleVars,
                    registryVars >>

\* the registry once inject has run on an application
injected(app) ==
    LET r == registry_after_inject(app)
    IN  /\ id_to_widget' = r.id_to_widget
        /\ widget_id_to_test_id' = r.widget_id_to_test_id
        /\ registry_call' = r.call
        /\ registry_before' = r.before

\* runner.py:93-107
inject ==
    /\ IF runner_root = None
       THEN /\ runner_call' = RunnerCall("inject", "RuntimeError", NoReport)
            /\ UNCHANGED registryVars
       ELSE /\ runner_call' = RunnerCall("inject",
                                registry_after_inject(runner_root).raised,
                                NoReport)
            /\ injected(runner_root)
    /\ UNCHANGED << runner_root, runner_report, set_app_called, analysed,
                    passVars >>
    /\ UNCHANGED << tabVars, checkVars, severity_deductions, scoreVars, reportVars, ruleVars >>

\* runner.py:109-126
simulate ==
    /\ \E script \in Scripts :
          /\ script \in {"click_ok", "click_fails"} =>
                Len(interaction_results) < MaxInteractions
          /\ interaction_results' = results_after(script)
    /\ runner_call' = RunnerCall("simulate", None, NoReport)
    /\ UNCHANGED << runner_root, runner_report, set_app_called, analysed,
                    passVars >>
    /\ UNCHANGED << tabVars, checkVars, severity_deductions, scoreVars, ruleVars, registryVars,
                    layout_violations, contrast_issues, accessibility_issues,
                    ux_issues, consistency_issues, rule_violations, clock,
                    overall_score, report, prev_report >>

\* runner.py:140-165 once the root is known to be attached: the pass over the
\* extracted tree, and self._report assigned when build_report has returned
analysed_with(op, results) ==
    LET pass == run_pass(heap, widget_tree, config_attrs)
        built == build_report(severity_deductions, clock, layout_violations,
                              contrast_issues, accessibility_issues, ux_issues,
                              consistency_issues, rule_violations, results)
    IN  /\ heap' = heap_after_flatten(heap, widget_tree)
        /\ flat' = flat_addrs(heap, widget_tree)
        /\ checker_outcome' = pass.outcome
        /\ settings_read' = settings_read \cup pass.read
        /\ IF pass.raised = None
           THEN /\ runner_report' = built
                /\ analysed' = TRUE
                /\ runner_call' = RunnerCall(op, None, built)
           ELSE /\ runner_call' = RunnerCall(op, pass.raised, NoReport)
                /\ UNCHANGED << runner_report, analysed >>

\* runner.py:128-165
analyse ==
    /\ IF runner_root = None
       THEN /\ runner_call' = RunnerCall("analyse", "RuntimeError", NoReport)
            /\ UNCHANGED << runner_report, analysed, heap, flat,
                            checker_outcome, settings_read >>
       ELSE analysed_with("analyse", interaction_results)
    /\ UNCHANGED << runner_root, set_app_called, config_attrs, widget_tree,
                    tree_before >>
    /\ UNCHANGED << tabVars, checkVars, severity_deductions, scoreVars, reportVars, ruleVars,
                    registryVars >>

\* runner.py:167-182
save_report ==
    /\ runner_call' = RunnerCall("save_report",
                         IF report_missing THEN "RuntimeError" ELSE None,
                         NoReport)
    /\ UNCHANGED << runner_root, runner_report, set_app_called, analysed,
                    passVars >>
    /\ UNCHANGED << tabVars, checkVars, severity_deductions, scoreVars, reportVars, ruleVars,
                    registryVars >>

\* runner.py:184-195
print_report ==
    /\ runner_call' = RunnerCall("print_report",
                         IF report_missing THEN "RuntimeError" ELSE None,
                         NoReport)
    /\ UNCHANGED << runner_root, runner_report, set_app_called, analysed,
                    passVars >>
    /\ UNCHANGED << tabVars, checkVars, severity_deductions, scoreVars, reportVars, ruleVars,
                    registryVars >>

\* runner.py:197-240: set_app, inject, simulate, analyse and save_report in
\* one call, ended by the first of them that raises
run_headless ==
    /\ \E app \in Apps, script \in Scripts :
          /\ script \in {"click_ok", "click_fails"} =>
                Len(interaction_results) < MaxInteractions
          /\ runner_root' = app
          /\ injected(app)
          /\ IF registry_after_inject(app).raised # None
             THEN /\ runner_call' = RunnerCall("run_headless",
                                       registry_after_inject(app).raised,
                                       NoReport)
                  /\ UNCHANGED << runner_report, analysed, heap, flat,
                                  checker_outcome, settings_read,
                                  interaction_results >>
             ELSE /\ interaction_results' = results_after(script)
                  /\ analysed_with("run_headless", results_after(script))
    /\ set_app_called' = TRUE
    /\ UNCHANGED << config_attrs, widget_tree, tree_before >>
    /\ UNCHANGED << tabVars, checkVars, severity_deductions, scoreVars, ruleVars,
                    layout_violations, contrast_issues, accessibility_issues,
                    ux_issues, consistency_issues, rule_violations, clock,
                    overall_score, report, prev_report >>

NextRunner ==
    \/ set_app
    \/ inject
    \/ simulate
    \/ analyse
    \/ save_report
    \/ print_report
    \/ run_headless
    \/ Tick

SpecRunner == InitRunner /\ [][NextRunner]_vars

MaxSiblings == 3

overlap_tolerance_px == 0
min_padding_px == 4
min_touch_target_px == 24

\* layout_metrics.py:18-32
BoundingBox(test_id, x, y, width, height) ==
    [test_id |-> test_id, x |-> x, y |-> y, width |-> width, height |-> height]

\* layout_metrics.py:34-42
right(box) == box.x + box.width
bottom(box) == box.y + box.height

\* layout_metrics.py:64-65, the extent two boxes share on each axis
overlap_x(a, b) == Max(0, Min(right(a), right(b)) - Max(a.x, b.x))
overlap_y(a, b) == Max(0, Min(bottom(a), bottom(b)) - Max(a.y, b.y))

\* a variant of overlaps that is content with one axis
overlaps_on_one_axis(a, b, tolerance) ==
    overlap_x(a, b) > tolerance \/ overlap_y(a, b) > tolerance

\* layout_metrics.py:54-66
overlaps(a, b, tolerance) ==
    overlap_x(a, b) > tolerance /\ overlap_y(a, b) > tolerance

\* a variant of distance_to that measures from the first box only
distance_to_from_self(a, b) ==
    LET dx == Max(0, a.x - right(b))
        dy == Max(0, a.y - bottom(b))
    IN  Max(dx, dy)

\* layout_metrics.py:68-81
distance_to(a, b) ==
    LET dx == Max(0, Max(a.x - right(b), b.x - right(a)))
        dy == Max(0, Max(a.y - bottom(b), b.y - bottom(a)))
    IN  Max(dx, dy)

\* layout_metrics.py:196-212 (_to_box)
to_box(node) ==
    BoundingBox(node["test_id"], node["abs_x"], node["abs_y"], node["width"],
                node["height"])

\* layout_metrics.py:84-106
LayoutViolation(rule_id, severity, widget_id, related_widget_id, measured_value, threshold) ==
    [rule_id |-> rule_id, severity |-> severity, widget_id |-> widget_id,
     related_widget_id |-> related_widget_id,
     measured_value |-> measured_value, threshold |-> threshold]

\* the keys of a dict of lists filled with setdefault(key, []).append(node) over
\* the list: each key once, in the order of its first node
RECURSIVE keys_in_order(_, _)
keys_in_order(nodes, key) ==
    IF nodes = << >> THEN << >>
    ELSE LET earlier == keys_in_order(SubSeq(nodes, 1, Len(nodes) - 1), key)
             k == nodes[Len(nodes)][key]
         IN  IF \E i \in 1..Len(earlier) : earlier[i] = k THEN earlier
             ELSE Append(earlier, k)

\* the list under one key of such a dict
RECURSIVE group_of(_, _, _)
group_of(nodes, key, k) ==
    IF nodes = << >> THEN << >>
    ELSE LET rest == group_of(Tail(nodes), key, k)
         IN  IF Head(nodes)[key] = k THEN << Head(nodes) >> \o rest ELSE rest

\* the nodes of a list that pass a test, in order
RECURSIVE visible_of(_)
visible_of(nodes) ==
    IF nodes = << >> THEN << >>
    ELSE IF Head(nodes)["visibility"]
         THEN << Head(nodes) >> \o visible_of(Tail(nodes))
         ELSE visible_of(Tail(nodes))

\* layout_metrics.py:229-234: the visible nodes grouped by parent_id, as the
\* list of the groups in the dict's order
sibling_groups(flat_list) ==
    LET shown == visible_of(flat_list)
        parents == keys_in_order(shown, "parent_id")
    IN  [g \in 1..Len(parents) |-> group_of(shown, "parent_id", parents[g])]

\* layout_metrics.py:239-245 (and 298-304): a box of zero width or height
\* takes part in no pair
has_area(box) == ~(box.width = 0 \/ box.height = 0)

\* the violations of the pairs (i, j), i < j, of one sibling group, in the
\* order of the two nested loops; found(a, b) is the list for the pair
pair_loop(boxes, found(_, _)) ==
    ConcatAll([i \in 1..Len(boxes) |->
        IF ~has_area(boxes[i]) THEN << >>
        ELSE ConcatAll([j \in 1..Len(boxes) |->
                IF j <= i \/ ~has_area(boxes[j]) THEN << >>
                ELSE found(boxes[i], boxes[j])])])

\* the two nested loops over every sibling group of two or more
group_loop(flat_list, found(_, _)) ==
    LET groups == sibling_groups(flat_list)
    IN  ConcatAll([g \in 1..Len(groups) |->
            IF Len(groups[g]) < 2 THEN << >>
            ELSE pair_loop([i \in 1..Len(groups[g]) |-> to_box(groups[g][i])],
                           found)])

\* layout_metrics.py:214-271
check_overlaps(flat_list, tolerance) ==
    LET found(a, b) ==
            IF overlaps(a, b, tolerance)
            THEN << LayoutViolation("overlap_detection", "high", a.test_id,
                                    b.test_id,
                                    Max(overlap_x(a, b), overlap_y(a, b)),
                                    tolerance) >>
            ELSE << >>
    IN  group_loop(flat_list, found)

\* layout_metrics.py:273-324
check_spacing(flat_list, min_pad) ==
    LET found(a, b) ==
            LET dist == distance_to(a, b)
            IN  IF 0 < dist /\ dist < min_pad
                THEN << LayoutViolation("insufficient_padding", "medium",
                                        a.test_id, b.test_id, dist, min_pad) >>
                ELSE << >>
    IN  group_loop(flat_list, found)

\* --------------------------------------- specification: the layout checks

\* a snapshot node with its geometry (tree_extractor.py:96-125)
LayoutNode(test_id, widget_type, parent_id, box, visibility, children) ==
    [test_id |-> test_id, widget_type |-> widget_type, parent_id |-> parent_id,
     abs_x |-> box[1], abs_y |-> box[2], width |-> box[3], height |-> box[4],
     visibility |-> visibility, children |-> children]

\* the boxes (x, y, width, height) a sibling is drawn at: a box, one that
\* overlaps it on both axes, one that touches it, one of zero width, one far
\* away, one two pixels from the first, one three pixels below the first
SiblingBoxes ==
    { << 0, 0, 10, 10 >>, << 5, 5, 10, 10 >>, << 10, 0, 10, 10 >>,
      << 0, 0, 0, 10 >>, << 30, 0, 10, 10 >>, << 12, 0, 10, 10 >>,
      << 0, 13, 10, 10 >> }

\* the siblings of a snapshot: any box shown, and the first box hidden
ChildSpecs ==
    { [box |-> b, visibility |-> TRUE] : b \in SiblingBoxes }
      \cup { [box |-> << 0, 0, 10, 10 >>, visibility |-> FALSE] }

ChildIds == << "c1", "c2", "c3", "c4", "c5", "c6" >>

\* the snapshot of a window holding the given children; with nested, the first
\* child holds a child of its own, drawn over it
layout_heap(children, nested) ==
    LET n == Len(children)
    IN  [a \in 1..(n + 1 + IF nested THEN 1 ELSE 0) |->
            IF a = 1
            THEN LayoutNode("root", "CTk", None, << 0, 0, 400, 300 >>, TRUE,
                            [i \in 1..n |-> i + 1])
            ELSE IF a <= n + 1
            THEN LayoutNode(ChildIds[a - 1], "CTkButton", "root",
                            children[a - 1].box, children[a - 1].visibility,
                            IF nested /\ a = 2 THEN << n + 2 >> ELSE << >>)
            ELSE LayoutNode("g1", "CTkButton", ChildIds[1], children[1].box,
                            TRUE, << >>)]

\* five children of 100x100 at the same coordinates
JammedChildren ==
    [i \in 1..5 |-> [box |-> << 0, 0, 100, 100 >>, visibility |-> TRUE]]

LayoutSnapshots ==
    { layout_heap(cs, FALSE) : cs \in SeqsUpTo(ChildSpecs, MaxSiblings) }
      \cup { layout_heap(cs, TRUE) :
                cs \in SeqsUpTo(ChildSpecs, MaxSiblings) \ { << >> } }
      \cup { layout_heap(JammedChildren, FALSE) }

\* the values of overlap_tolerance_px a config carries: the default and 5
OverlapTolerances == { overlap_tolerance_px, 5 }

InitLayout ==
    /\ severity_deductions = DefaultDeductions
    /\ ScoreIdle
    /\ ReportIdle
    /\ RulesIdle
    /\ RegistryIdle
    /\ RunnerIdle
    /\ CheckIdle
    /\ TabIdle
    /\ config_attrs = ValidatorConfigFields
    /\ heap \in LayoutSnapshots
    /\ widget_tree = 1
    /\ tree_before = heap
    /\ flat = << >>
    /\ checker_outcome = [c \in Components |-> "not run"]
    /\ settings_read = {}

\* layout_metrics.py:153, the flat list analyse hands to every check
flat_list == flatten(heap, widget_tree)

\* layout_metrics.py:214-271 on the snapshot
CheckOverlaps ==
    /\ \E tolerance \in OverlapTolerances :
          check_result' = Checked("_check_overlaps", tolerance,
                                  check_overlaps(flat_list, tolerance))
    /\ UNCHANGED << tabVars, severity_deductions, scoreVars, reportVars, ruleVars,
                    registryVars, passVars, runnerVars >>

\* layout_metrics.py:273-324 on the snapshot
CheckSpacing ==
    /\ check_result' = Checked("_check_spacing", min_padding_px,
                               check_spacing(flat_list, min_padding_px))
    /\ UNCHANGED << tabVars, severity_deductions, scoreVars, reportVars, ruleVars,
                    registryVars, passVars, runnerVars >>

\* layout_metrics.py:153-157: the overlap and the spacing violations of one
\* analyse call, in the list the call collects them in
ExtendPairChecks ==
    /\ layout_violations' =
          check_overlaps(flat_list, overlap_tolerance_px)
            \o check_spacing(flat_list, min_padding_px)
    /\ check_result' = Checked("analyse", overlap_tolerance_px, << >>)
    /\ UNCHANGED << tabVars, severity_deductions, scoreVars, ruleVars, registryVars,
                    passVars, runnerVars, contrast_issues,
                    accessibility_issues, ux_issues, consistency_issues,
                    rule_violations, interaction_results, clock,
                    overall_score, report, prev_report >>

NextLayout ==
    \/ CheckOverlaps
    \/ CheckSpacing
    \/ ExtendPairChecks

SpecLayout == InitLayout /\ [][NextLayout]_vars

\* the pairs of positions (i, j), i before j in tree order, of visible siblings
\* of one parent with nonzero width and height whose boxes share more than the
\* tolerance on both axes
StatedOverlapPairs(nodes, tolerance) ==
    { p \in (1..Len(nodes)) \X (1..Len(nodes)) :
        LET a == nodes[p[1]]
            b == nodes[p[2]]
        IN  /\ p[1] < p[2]
            /\ a.parent_id = b.parent_id
            /\ a.visibility /\ b.visibility
            /\ a.width > 0 /\ a.height > 0 /\ b.width > 0 /\ b.height > 0
            /\ Min(a.abs_x + a.width, b.abs_x + b.width)
                  - Max(a.abs_x, b.abs_x) > tolerance
            /\ Min(a.abs_y + a.height, b.abs_y + b.height)
                  - Max(a.abs_y, b.abs_y) > tolerance }

\* C11: the overlap check emits exactly one overlap_detection violation, of
\* severity high, per pair of visible nonzero-size siblings of one parent whose
\* boxes overlap by more than the tolerance on both axes, with widget_id the
\* earlier sibling in tree order; it never pairs two nodes of different
\* parents, nor a parent with its own child.
C11_OverlapPairs ==
    check_result.check = "_check_overlaps" =>
        LET found == check_result.value
            stated == StatedOverlapPairs(flat_list, check_result.setting)
        IN  /\ Len(found) = Cardinality(stated)
            /\ \A p \in stated :
                  Cardinality({ k \in 1..Len(found) :
                      /\ found[k].widget_id = flat_list[p[1]].test_id
                      /\ found[k].related_widget_id = flat_list[p[2]].test_id })
                    = 1
            /\ \A k \in 1..Len(found) :
                  /\ found[k].rule_id = "overlap_detection"
                  /\ found[k].severity = "high"
                  /\ \A i, j \in 1..Len(flat_list) :
                        (/\ flat_list[i].test_id = found[k].widget_id
                         /\ flat_list[j].test_id = found[k].related_widget_id)
                        => /\ i < j
                           /\ flat_list[i].parent_id = flat_list[j].parent_id
                           /\ flat_list[j].parent_id # flat_list[i].test_id
                           /\ flat_list[i].parent_id # flat_list[j].test_id

\* five identical 100x100 siblings at the same coordinates have given
\* C(5,2) = 10 violations
C11_Witness ==
    /\ check_result.check = "_check_overlaps"
    /\ check_result.setting = 0
    /\ Len(flat_list) = 6
    /\ \A i \in 2..6 : flat_list[i].width = 100 /\ flat_list[i].height = 100
    /\ Len(check_result.value) = 10

\* the boxes of the snapshot's nodes
boxes_of(nodes) == { to_box(nodes[i]) : i \in 1..Len(nodes) }

\* two violations are about the same pair of widgets
SamePair(v, w) ==
    \/ v.widget_id = w.widget_id /\ v.related_widget_id = w.related_widget_id
    \/ v.widget_id = w.related_widget_id /\ v.related_widget_id = w.widget_id

\* C15: for any two boxes a and b, overlaps(a, b, 0) = overlaps(b, a, 0),
\* distance_to(a, b) = distance_to(b, a), and distance_to(a, b) = 0 whenever
\* overlaps(a, b, 0); no sibling pair is reported both as overlap_detection
\* and as insufficient_padding by one analyse call.
C15_BoxAlgebra ==
    /\ \A a, b \in boxes_of(flat_list) :
          /\ overlaps(a, b, 0) = overlaps(b, a, 0)
          /\ distance_to(a, b) = distance_to(b, a)
          /\ overlaps(a, b, 0) => distance_to(a, b) = 0
    /\ check_result.check = "analyse" =>
          \A k, l \in 1..Len(layout_violations) :
              ~(/\ layout_violations[k].rule_id = "overlap_detection"
                /\ layout_violations[l].rule_id = "insufficient_padding"
                /\ SamePair(layout_violations[k], layout_violations[l]))

\* one analyse call has reported an overlapping pair and a pair too close, in
\* a snapshot with boxes that overlap, boxes apart on x and boxes apart on y
C15_Witness ==
    /\ check_result.check = "analyse"
    /\ \E k, l \in 1..Len(layout_violations) :
          /\ layout_violations[k].rule_id = "overlap_detection"
          /\ layout_violations[l].rule_id = "insufficient_padding"
    /\ \E a, b \in boxes_of(flat_list) :
          overlaps(a, b, 0) /\ a.test_id # b.test_id /\ a.test_id # "root"
            /\ b.test_id # "root"
    /\ \E a, b \in boxes_of(flat_list) : distance_to(a, b) > 0 /\ a.x > right(b)
    /\ \E a, b \in boxes_of(flat_list) : distance_to(a, b) > 0 /\ a.y > bottom(b)

\* ------------------------------------------------------ the contrast checker

\* Colours are strings of characters, written as tuples of one-character
\* strings; a null colour, like a null font, is a node without the key.
\* Luminance is kept in 1/100000 and a contrast ratio in thousandths.

\* int(digit, 16) of one character
HexValues ==
    ("0" :> 0) @@ ("1" :> 1) @@ ("2" :> 2) @@ ("3" :> 3) @@ ("4" :> 4)
      @@ ("5" :> 5) @@ ("6" :> 6) @@ ("7" :> 7) @@ ("8" :> 8) @@ ("9" :> 9)
      @@ ("a" :> 10) @@ ("b" :> 11) @@ ("c" :> 12) @@ ("d" :> 13)
      @@ ("e" :> 14) @@ ("f" :> 15) @@ ("A" :> 10) @@ ("B" :> 11)
      @@ ("C" :> 12) @@ ("D" :> 13) @@ ("E" :> 14) @@ ("F" :> 15)

\* what a failed parse returns (Python's None where a triple is expected)
NoRGB == << >>

\* int(chars, 16) raises ValueError unless every character (a letter, a digit
\* or "#" here) is a hexadecimal digit
is_hex(chars) == \A i \in 1..Len(chars) : chars[i] \in DOMAIN HexValues

\* int(chars, 16) of hexadecimal digits
RECURSIVE int16(_)
int16(chars) ==
    IF chars = << >> THEN 0
    ELSE 16 * int16(SubSeq(chars, 1, Len(chars) - 1))
            + HexValues[chars[Len(chars)]]

\* str.lstrip("#"): every leading "#" is dropped
RECURSIVE lstrip_hash(_)
lstrip_hash(chars) ==
    IF chars # << >> /\ Head(chars) = "#" THEN lstrip_hash(Tail(chars))
    ELSE chars

\* int(chars, 16) of a slice of the colour string: a ValueError unless the
\* slice is hexadecimal digits after an optional "-" (the characters of the
\* model are letters, digits, "#" and "-")
int_base16(chars) ==
    LET negative == chars # << >> /\ Head(chars) = "-"
        digits == IF negative THEN Tail(chars) ELSE chars
    IN  IF digits = << >> \/ ~is_hex(digits)
        THEN [raised |-> TRUE, value |-> 0]
        ELSE [raised |-> FALSE,
              value |-> IF negative THEN 0 - int16(digits) ELSE int16(digits)]

\* contrast_checker.py:208-239 (_hex_to_rgb); n >> 4 is the floor of n / 16
hex_to_rgb(hex_color) ==
    LET color == lstrip_hash(hex_color)
        slices ==
            IF Len(color) = 3
            THEN [i \in 1..3 |-> << color[i], color[i] >>]
            ELSE IF Len(color) = 6
            THEN [i \in 1..3 |-> SubSeq(color, 2 * i - 1, 2 * i)]
            ELSE [i \in 1..3 |-> SubSeq(color, 3 * i - 2, 3 * i)]
        channel(i) ==
            IF Len(color) = 9 THEN int_base16(slices[i]).value \div 16
            ELSE int_base16(slices[i]).value
    IN  IF Len(color) \notin { 3, 6, 9 } THEN NoRGB
        ELSE IF \E i \in 1..3 : int_base16(slices[i]).raised THEN NoRGB
        ELSE << channel(1), channel(2), channel(3) >>

\* contrast_checker.py:173-179: the linearised value of a channel 0..255,
\* s / 12.92 or ((s + 0.055) / 1.055) ** 2.4 with s = c / 255, in 1/100000
linear_channel ==
    << 
       0, 30, 61, 91, 121, 152, 182, 212, 243, 273, 304, 335,
       368, 402, 439, 478, 518, 561, 605, 651, 700, 750, 802, 857,
       913, 972, 1033, 1096, 1161, 1229, 1298, 1370, 1444, 1521, 1600, 1681,
       1764, 1850, 1938, 2029, 2122, 2217, 2315, 2416, 2519, 2624, 2732, 2843,
       2956, 3071, 3190, 3310, 3434, 3560, 3689, 3820, 3955, 4092, 4231, 4374,
       4519, 4667, 4817, 4971, 5127, 5286, 5448, 5613, 5781, 5951, 6125, 6301,
       6480, 6663, 6848, 7036, 7227, 7421, 7619, 7819, 8022, 8228, 8438, 8650,
       8866, 9084, 9306, 9531, 9759, 9990, 10224, 10462, 10702, 10946, 11193, 11444,
       11697, 11954, 12214, 12477, 12744, 13014, 13287, 13563, 13843, 14126, 14413, 14703,
       14996, 15293, 15593, 15896, 16203, 16513, 16827, 17144, 17465, 17789, 18116, 18447,
       18782, 19120, 19462, 19807, 20156, 20508, 20864, 21223, 21586, 21953, 22323, 22697,
       23074, 23455, 23840, 24228, 24620, 25016, 25415, 25818, 26225, 26636, 27050, 27468,
       27889, 28315, 28744, 29177, 29614, 30054, 30499, 30947, 31399, 31855, 32314, 32778,
       33245, 33716, 34191, 34670, 35153, 35640, 36131, 36625, 37124, 37626, 38133, 38643,
       39157, 39676, 40198, 40724, 41254, 41789, 42327, 42869, 43415, 43966, 44520, 45079,
       45641, 46208, 46778, 47353, 47932, 48515, 49102, 49693, 50289, 50888, 51492, 52100,
       52712, 53328, 53948, 54572, 55201, 55834, 56471, 57112, 57758, 58408, 59062, 59720,
       60383, 61050, 61721, 62396, 63076, 63760, 64448, 65141, 65837, 66539, 67244, 67954,
       68669, 69387, 70110, 70838, 71569, 72306, 73046, 73791, 74540, 75294, 76052, 76815,
       77582, 78354, 79130, 79910, 80695, 81485, 82279, 83077, 83880, 84687, 85499, 86316,
       87137, 87962, 88792, 89627, 90466, 91310, 92158, 93011, 93869, 94731, 95597, 96469,
       97345, 98225, 99110, 100000 >>

\* contrast_checker.py:158-180, in 1/100000
relative_luminance(rgb) ==
    (2126 * linear_channel[rgb[1] + 1] + 7152 * linear_channel[rgb[2] + 1]
        + 722 * linear_channel[rgb[3] + 1]) \div 10000

\* contrast_checker.py:139-156, in thousandths
contrast_ratio(color_a, color_b) ==
    LET lum_a == relative_luminance(color_a)
        lum_b == relative_luminance(color_b)
        lighter == Max(lum_a, lum_b)
        darker == Min(lum_a, lum_b)
    IN  ((lighter + 5000) * 1000) \div (darker + 5000)

\* config.py:36-37, in thousandths
min_contrast_ratio_normal == 4500
min_contrast_ratio_large == 3000

\* contrast_checker.py:34-61
ContrastIssue(severity, widget_id, fg_color, bg_color, ratio, required_ratio) ==
    [rule_id |-> "insufficient_contrast", severity |-> severity,
     widget_id |-> widget_id, fg_color |-> fg_color, bg_color |-> bg_color,
     contrast_ratio |-> ratio, required_ratio |-> required_ratio,
     wcag_level |-> "AA"]

\* a variant of the severity ladder that never says high
severity_of_ratio_two_steps(ratio) ==
    IF ratio < 2000 THEN "critical" ELSE "medium"

\* contrast_checker.py:115
severity_of_ratio(ratio) ==
    IF ratio < 2000 THEN "critical"
    ELSE IF ratio < 3000 THEN "high" ELSE "medium"

\* a variant of the required ratio that asks the normal ratio of every text
required_ratio_normal_only(node) == min_contrast_ratio_normal

\* contrast_checker.py:107-112
required_ratio(node) ==
    IF is_large_text(node).large THEN min_contrast_ratio_large
    ELSE min_contrast_ratio_normal

\* contrast_checker.py:91-135, the body of the loop for one node
contrast_issues_of(node) ==
    IF node["text"] = "" THEN << >>
    ELSE IF "fg_color" \notin DOMAIN node \/ "bg_color" \notin DOMAIN node
    THEN << >>
    ELSE LET fg_rgb == hex_to_rgb(node["fg_color"])
             bg_rgb == hex_to_rgb(node["bg_color"])
         IN  IF fg_rgb = NoRGB \/ bg_rgb = NoRGB THEN << >>
             ELSE LET ratio == contrast_ratio(fg_rgb, bg_rgb)
                      required == required_ratio(node)
                  IN  IF ratio < required
                      THEN << ContrastIssue(severity_of_ratio(ratio),
                                            node["test_id"], node["fg_color"],
                                            node["bg_color"], ratio, required) >>
                      ELSE << >>

\* contrast_checker.py:79-137
check_contrast(nodes) ==
    ConcatAll([i \in 1..Len(nodes) |-> contrast_issues_of(nodes[i])])

\* ------------------------------------ specification: the contrast checker

Gray6(c, d) == << "#", c, d, c, d, c, d >>

\* the colour strings of a snapshot: six-digit greys, a three-digit and a
\* nine-digit form, a colour name and an eight-digit form
ColourStrings ==
    { Gray6("7", "7"), Gray6("4", "4"), Gray6("f", "f"), Gray6("0", "0"),
      Gray6("7", "6"), Gray6("9", "9"), Gray6("b", "b"),
      << "#", "F", "F", "F" >>,
      << "#", "7", "7", "7", "7", "7", "7", "7", "7", "7" >>,
      << "g", "r", "a", "y", "2", "0" >>,
      << "#", "7", "7", "7", "7", "7", "7", "7", "7" >> }

\* the fonts (size, weight) of a snapshot; a negative size is Tk's size in
\* pixels
FontChoices ==
    { << 12, "normal" >>, << 14, "bold" >>, << 14, "normal" >>,
      << 13, "bold" >>, << 18, "normal" >>, << 14, "Bold" >>,
      << 0 - 20, "normal" >>, << 0 - 14, "bold" >> }

\* in the choices below, the empty tuple stands for a null colour or font
Null == << >>

TextChoices == { "", "Status: Ready" }

\* a text-bearing node (tree_extractor.py:96-125); a null colour or font is a
\* missing key
text_node(test_id, text, fg, bg, font) ==
    [test_id |-> test_id, widget_type |-> "CTkLabel", text |-> text,
     children |-> << >>]
      @@ (IF fg = Null THEN << >> ELSE ("fg_color" :> fg))
      @@ (IF bg = Null THEN << >> ELSE ("bg_color" :> bg))
      @@ (IF font = Null THEN << >>
          ELSE ("font_size" :> font[1]) @@ ("font_weight" :> font[2]))

\* a window holding one text-bearing node
contrast_heap(text, fg, bg, font) ==
    << [test_id |-> "root", widget_type |-> "CTk", text |-> "",
        children |-> << 2 >>],
       text_node("status", text, fg, bg, font) >>

ContrastSnapshots ==
    { contrast_heap(text, fg, bg, font) :
        text \in TextChoices, fg \in ColourStrings \cup { Null },
        bg \in ColourStrings \cup { Null }, font \in FontChoices \cup { Null } }

InitContrast ==
    /\ severity_deductions = DefaultDeductions
    /\ ScoreIdle
    /\ ReportIdle
    /\ RulesIdle
    /\ RegistryIdle
    /\ RunnerIdle
    /\ CheckIdle
    /\ TabIdle
    /\ config_attrs = ValidatorConfigFields
    /\ heap \in ContrastSnapshots
    /\ widget_tree = 1
    /\ tree_before = heap
    /\ flat = << >>
    /\ checker_outcome = [c \in Components |-> "not run"]
    /\ settings_read = {}

\* contrast_checker.py:79-137 on the snapshot; the issues go to the report's
\* contrast list (runner.py:146)
CheckContrast ==
    /\ check_result' = Checked("ContrastChecker.check", 0,
                               check_contrast(flat_list))
    /\ contrast_issues' = check_contrast(flat_list)
    /\ UNCHANGED << tabVars, severity_deductions, scoreVars, ruleVars, registryVars,
                    passVars, runnerVars, layout_violations,
                    accessibility_issues, ux_issues, consistency_issues,
                    rule_violations, interaction_results, clock,
                    overall_score, report, prev_report >>

NextContrast == CheckContrast

SpecContrast == InitContrast /\ [][NextContrast]_vars

\* the node of the worked example: "Status: Ready" in #777777 on #444444, font
\* size 12, normal weight
StatusReadyChecked ==
    /\ check_result.check = "ContrastChecker.check"
    /\ heap = contrast_heap("Status: Ready", Gray6("7", "7"), Gray6("4", "4"),
                            << 12, "normal" >>)

\* C12 as stated: the example node gets one insufficient_contrast issue of
\* ratio about 1.4 (below 2.0) against 4.5, severity critical.
C12_StatusReadyCritical ==
    StatusReadyChecked =>
        /\ Len(check_result.value) = 1
        /\ check_result.value[1].rule_id = "insufficient_contrast"
        /\ check_result.value[1].required_ratio = 4500
        /\ check_result.value[1].contrast_ratio < 2000
        /\ check_result.value[1].contrast_ratio \in 1350..1450
        /\ check_result.value[1].severity = "critical"

\* C12: the example node gets one insufficient_contrast issue of ratio about
\* 2.17 (at least 2.0, below 3.0) against 4.5, severity high.
C12_StatusReadyHigh ==
    StatusReadyChecked =>
        /\ Len(check_result.value) = 1
        /\ check_result.value[1].rule_id = "insufficient_contrast"
        /\ check_result.value[1].widget_id = "status"
        /\ check_result.value[1].required_ratio = 4500
        /\ check_result.value[1].contrast_ratio \in 2170..2180
        /\ check_result.value[1].severity = "high"

\* the example node has been checked and reported
C12_Witness ==
    /\ StatusReadyChecked
    /\ Len(check_result.value) = 1

\* the text-bearing node of the snapshot
StatusNode == flat_list[2]

\* both colours of a node are present and parse
colours_parse(node) ==
    /\ "fg_color" \in DOMAIN node
    /\ "bg_color" \in DOMAIN node
    /\ hex_to_rgb(node["fg_color"]) # NoRGB
    /\ hex_to_rgb(node["bg_color"]) # NoRGB

\* the contrast ratio of a node whose colours parse
ratio_of(node) ==
    contrast_ratio(hex_to_rgb(node["fg_color"]), hex_to_rgb(node["bg_color"]))

\* large text as stated: size at least 18, or at least 14 with bold weight,
\* for the reading size(_) of the font size
stated_large(node, size(_)) ==
    /\ "font_size" \in DOMAIN node
    /\ \/ size(node["font_size"]) >= 18
       \/ /\ size(node["font_size"]) >= 14
          /\ lower(node["font_weight"]) = "bold"

stated_required(node, size(_)) ==
    IF stated_large(node, size) THEN 3000 ELSE 4500

\* the statement of C20 for a reading of the font size: the node is reported
\* iff its text is non-empty, its colours parse and its ratio is below the
\* required ratio; the issue carries the ratio and the severity of the ladder
contrast_statement(size(_)) ==
    check_result.check = "ContrastChecker.check" =>
        LET node == StatusNode
            reported == \E k \in 1..Len(check_result.value) :
                            check_result.value[k].widget_id = node["test_id"]
        IN  /\ Len(check_result.value) <= 1
            /\ reported <=>
                  /\ node["text"] # ""
                  /\ colours_parse(node)
                  /\ ratio_of(node) < stated_required(node, size)
            /\ \A k \in 1..Len(check_result.value) :
                  LET issue == check_result.value[k]
                  IN  /\ issue.contrast_ratio = ratio_of(node)
                      /\ issue.contrast_ratio < 2000 =>
                            issue.severity = "critical"
                      /\ (2000 <= issue.contrast_ratio
                            /\ issue.contrast_ratio < 3000) =>
                            issue.severity = "high"
                      /\ issue.contrast_ratio >= 3000 =>
                            issue.severity = "medium"

ENTRY_TYPES ==
    { "CTkEntry", "CTkTextbox", "CTkComboBox", "TEntry", "TTextbox",
      "TComboBox", "Entry", "Text", "Combobox", "Spinbox" }

BUTTON_TYPES == { "CTkButton", "TButton", "Button" }

INTERACTIVE_TYPES ==
    ENTRY_TYPES \cup BUTTON_TYPES \cup
    { "CTkCheckBox", "CTkSwitch", "CTkRadioButton", "CTkSlider",
      "CTkOptionMenu", "CTkSegmentedButton", "TCheckBox", "TSwitch",
      "TRadioButton", "TSlider", "TOptionMenu", "Checkbutton", "Radiobutton",
      "Scale" }

\* the widget types of the snapshots (type(widget).__name__,
\* tree_extractor.py:67)
WidgetTypes ==
    { "CTk", "CTkFrame", "LabelFrame", "CTkLabel", "Label", "CTkEntry",
      "Text", "CTkButton", "Button", "CTkCheckBox" }

\* accessibility_checker.py:210, "Label" in wtype: the widget types whose name
\* holds the letters "Label"
types_with_Label_in_name ==
    { "CTkLabel", "Label", "LabelFrame" } \cap WidgetTypes

\* accessibility_checker.py:19-48; the description and the recommended fix are
\* texts built from the widget id
AccessibilityIssue(rule_id, severity, widget_id) ==
    [rule_id |-> rule_id, severity |-> severity, widget_id |-> widget_id]

\* the texts of the snapshots' widgets
WidgetTexts ==
    { "", "Name", "Group", "Reset", " RESET ", "Help", "Button",
      "Fill in the required fields first" }

\* text.lower().strip() over the texts of the snapshots
lower_strip(text) ==
    CASE text = "Name" -> "name"
      [] text = "Group" -> "group"
      [] text \in { "Reset", " RESET " } -> "reset"
      [] text = "Help" -> "help"
      [] text = "Button" -> "button"
      [] text = "Fill in the required fields first" ->
            "fill in the required fields first"
      [] OTHER -> text

\* keyword in text (substring) over the lowercased texts of the snapshots: the
\* words of the two keyword sets each text holds
keywords_in(text) ==
    CASE text = "reset" -> { "reset" }
      [] text = "fill in the required fields first" -> { "required", "first" }
      [] OTHER -> {}

\* accessibility_checker.py:257-261
primary_keywords ==
    { "submit", "save", "confirm", "login", "sign in", "register", "ok",
      "send", "apply", "continue", "reset", "delete", "remove", "cancel" }

\* accessibility_checker.py:186-240
check_missing_labels(nodes) ==
    LET is_label(node) ==
            /\ node["widget_type"] \in types_with_Label_in_name
            /\ node["text"] # ""
        is_entry(node) == node["widget_type"] \in ENTRY_TYPES
        labels == SelectSeq(nodes, is_label)
        entries == SelectSeq(nodes, is_entry)
        parents == keys_in_order(entries, "parent_id")
    IN  ConcatAll([p \in 1..Len(parents) |->
            LET es == group_of(entries, "parent_id", parents[p])
                ls == group_of(labels, "parent_id", parents[p])
            IN  IF Len(ls) >= Len(es) THEN << >>
                ELSE [i \in 1..(Len(es) - Len(ls)) |->
                        AccessibilityIssue("missing_label", "high",
                                           es[Len(ls) + i]["test_id"])]])

\* accessibility_checker.py:242-287
check_disabled_primary_actions(nodes) ==
    LET found(node) ==
            /\ node["widget_type"] \in BUTTON_TYPES
            /\ ~node["enabled"]
            /\ keywords_in(lower_strip(node["text"])) \cap primary_keywords # {}
        hits == SelectSeq(nodes, found)
    IN  [i \in 1..Len(hits) |->
            AccessibilityIssue("disabled_primary_action", "medium",
                               hits[i]["test_id"])]

\* ---------------------------------------- the built-in rules on a snapshot

\* rule_engine.py:17-50; the description and the recommended fix are texts
\* built from the widget id
rule_violation(rule_id, severity, widget_id) ==
    [rule_id |-> rule_id, severity |-> severity, widget_id |-> widget_id]

\* the violations a rule gives for the nodes that pass its test, in order
violations_for(nodes, found(_), rule_id, severity) ==
    LET hits == SelectSeq(nodes, found)
    IN  [i \in 1..Len(hits) |->
            rule_violation(rule_id, severity, hits[i]["test_id"])]

\* rule_engine.py:222-257
rule_hidden_interactive(nodes) ==
    LET interactive ==
            { "CTkButton", "CTkEntry", "CTkCheckBox", "CTkSwitch",
              "CTkRadioButton", "CTkSlider", "CTkOptionMenu", "CTkComboBox",
              "CTkTextbox", "TButton", "TEntry", "TCheckBox", "Button",
              "Entry", "Checkbutton" }
        found(node) ==
            node["widget_type"] \in interactive /\ ~node["visibility"]
    IN  violations_for(nodes, found, "hidden_interactive", "high")

\* rule_engine.py:259-290; strip() leaves a text of the snapshots empty only
\* when it is empty
rule_empty_text_button(nodes) ==
    LET found(node) ==
            /\ node["widget_type"] \in { "CTkButton", "TButton", "Button" }
            /\ lower_strip(node["text"]) = ""
    IN  violations_for(nodes, found, "empty_text_button", "medium")

\* rule_engine.py:292-325: the walk from a node at a depth
RECURSIVE walk(_, _, _)
walk(h, a, depth) ==
    (IF depth > 10 /\ h[a]["widget_type"] \notin { "CTk", "Tk" }
     THEN << rule_violation("excessive_nesting", "low", h[a]["test_id"]) >>
     ELSE << >>)
    \o ConcatAll([i \in 1..Len(children_of(h[a])) |->
                    walk(h, children_of(h[a])[i], depth + 1)])

rule_excessive_nesting(h, a) == walk(h, a, 0)

\* rule_engine.py:327-361
rule_zero_dimension(nodes) ==
    LET found(node) ==
            /\ node["visibility"]
            /\ node["width"] = 0 \/ node["height"] = 0
            /\ node["widget_type"] \notin { "CTk", "Tk", "Toplevel" }
    IN  violations_for(nodes, found, "zero_dimension_widget", "medium")

\* rule_engine.py:403-406
hint_keywords ==
    { "disabled", "unavailable", "locked", "required", "must", "need",
      "first", "before", "not available" }

\* rule_engine.py:364-428
rule_disabled_without_reason_buttons_without_action(nodes) ==
    LET interactive ==
            { "CTkButton", "CTkEntry", "CTkCheckBox", "CTkSwitch",
              "CTkRadioButton", "CTkSlider", "CTkOptionMenu", "CTkComboBox",
              "TButton", "TEntry", "TCheckBox", "Button", "Entry",
              "Checkbutton" }
        label_types == { "CTkLabel", "TLabel", "Label" }
        is_label(node) == node["widget_type"] \in label_types
        labels == SelectSeq(nodes, is_label)
        found(node) ==
            /\ node["widget_type"] \in interactive
            /\ ~node["enabled"]
            /\ keywords_in(lower_strip(node["text"])) \cap primary_keywords = {}
            /\ LET sibling_labels ==
                       group_of(labels, "parent_id", node["parent_id"])
               IN  ~\E i \in 1..Len(sibling_labels) :
                      keywords_in(lower_strip(sibling_labels[i]["text"]))
                          \cap hint_keywords # {}
    IN  violations_for(nodes, found, "disabled_without_reason", "low")

rule_disabled_without_reason(nodes) ==
    LET interactive ==
            { "CTkButton", "CTkEntry", "CTkCheckBox", "CTkSwitch",
              "CTkRadioButton", "CTkSlider", "CTkOptionMenu", "CTkComboBox",
              "TButton", "TEntry", "TCheckBox", "Button", "Entry",
              "Checkbutton" }
        label_types == { "CTkLabel", "TLabel", "Label" }
        is_label(node) == node["widget_type"] \in label_types
        labels == SelectSeq(nodes, is_label)
        found(node) ==
            /\ node["widget_type"] \in interactive
            /\ ~node["enabled"]
            /\ LET sibling_labels ==
                       group_of(labels, "parent_id", node["parent_id"])
               IN  ~\E i \in 1..Len(sibling_labels) :
                      keywords_in(lower_strip(sibling_labels[i]["text"]))
                          \cap hint_keywords # {}
    IN  violations_for(nodes, found, "disabled_without_reason", "low")

\* rule_engine.py:431-479
placeholder_texts ==
    { "label", "button", "text", "title", "header", "ctkbutton", "ctklabel",
      "untitled", "placeholder", "test", "todo", "fixme", "xxx" }

rule_text_content_quality(nodes) ==
    LET text_types ==
            { "CTkButton", "TButton", "Button", "CTkLabel", "TLabel", "Label" }
        found(node) ==
            /\ node["widget_type"] \in text_types
            /\ lower_strip(node["text"]) # ""
            /\ lower_strip(node["text"]) \in placeholder_texts
    IN  violations_for(nodes, found, "text_content_quality", "medium")

\* rule_engine.py:156-201: the check function of each built-in rule, on the
\* tree at address a of heap h; each flattens the tree itself
rule_function(fn, h, a) ==
    CASE fn = "hidden_interactive" -> rule_hidden_interactive(flatten(h, a))
      [] fn = "empty_text_button" -> rule_empty_text_button(flatten(h, a))
      [] fn = "excessive_nesting" -> rule_excessive_nesting(h, a)
      [] fn = "zero_dimension_widget" -> rule_zero_dimension(flatten(h, a))
      [] fn = "disabled_without_reason" ->
            rule_disabled_without_reason(flatten(h, a))
      [] fn = "text_content_quality" ->
            rule_text_content_quality(flatten(h, a))
      [] OTHER -> << >>

\* rule_engine.py:123-136 on a tree
RECURSIVE evaluate_tree(_, _, _)
evaluate_tree(rs, h, a) ==
    IF rs = << >> THEN << >>
    ELSE (IF Head(rs).enabled THEN rule_function(Head(rs).check, h, a)
          ELSE << >>)
         \o evaluate_tree(Tail(rs), h, a)

\* -------------------------------- specification: the missing-label check

\* a node of a form snapshot (tree_extractor.py:96-125)
FormNode(test_id, widget_type, parent_id, text, enabled, children) ==
    [test_id |-> test_id, widget_type |-> widget_type, parent_id |-> parent_id,
     text |-> text, enabled |-> enabled, visibility |-> TRUE,
     width |-> 100, height |-> 30, children |-> children]

\* the kind of a widget in a form: its type, text and state
Kind(widget_type, text, enabled) ==
    [widget_type |-> widget_type, text |-> text, enabled |-> enabled]

\* the widgets a container of the label snapshots holds: an entry, a label
\* with text, a label without, a titled LabelFrame, a button
LabelKinds ==
    { Kind("CTkEntry", "", TRUE), Kind("CTkLabel", "Name", TRUE),
      Kind("Label", "", TRUE), Kind("LabelFrame", "Group", TRUE),
      Kind("CTkButton", "Help", TRUE) }

\* the widgets the second container holds
OtherLabelKinds == { Kind("Text", "", TRUE), Kind("CTkLabel", "Name", TRUE) }

OtherIds == << "d1", "d2" >>

\* the snapshot of a window with two frames holding the given widgets
form_heap(kids, others) ==
    LET n == Len(kids)
        m == Len(others)
    IN  [a \in 1..(3 + n + m) |->
            IF a = 1
            THEN FormNode("root", "CTk", None, "", TRUE, << 2, 3 >>)
            ELSE IF a = 2
            THEN FormNode("f1", "CTkFrame", "root", "", TRUE,
                          [i \in 1..n |-> 3 + i])
            ELSE IF a = 3
            THEN FormNode("f2", "CTkFrame", "root", "", TRUE,
                          [i \in 1..m |-> 3 + n + i])
            ELSE IF a <= 3 + n
            THEN FormNode(ChildIds[a - 3], kids[a - 3].widget_type, "f1",
                          kids[a - 3].text, kids[a - 3].enabled, << >>)
            ELSE FormNode(OtherIds[a - 3 - n], others[a - 3 - n].widget_type,
                          "f2", others[a - 3 - n].text,
                          others[a - 3 - n].enabled, << >>)]

\* a container of four entries and no label
FourEntries == [i \in 1..4 |-> Kind("CTkEntry", "", TRUE)]

LabelSnapshots ==
    { form_heap(kids, others) :
        kids \in SeqsUpTo(LabelKinds, MaxSiblings),
        others \in SeqsUpTo(OtherLabelKinds, 1) }
      \cup { form_heap(FourEntries, << >>) }

InitLabels ==
    /\ severity_deductions = DefaultDeductions
    /\ ScoreIdle
    /\ ReportIdle
    /\ RulesIdle
    /\ RegistryIdle
    /\ RunnerIdle
    /\ CheckIdle
    /\ TabIdle
    /\ config_attrs = ValidatorConfigFields
    /\ heap \in LabelSnapshots
    /\ widget_tree = 1
    /\ tree_before = heap
    /\ flat = << >>
    /\ checker_outcome = [c \in Components |-> "not run"]
    /\ settings_read = {}

\* accessibility_checker.py:186-240 on the snapshot
CheckMissingLabels ==
    /\ check_result' = Checked("_check_missing_labels", 0,
                               check_missing_labels(flat_list))
    /\ UNCHANGED << tabVars, severity_deductions, scoreVars, reportVars, ruleVars,
                    registryVars, passVars, runnerVars >>

NextLabels == CheckMissingLabels

SpecLabels == InitLabels /\ [][NextLabels]_vars

\* the entries of a container, and its labels (CTkLabel, TLabel or Label) with
\* non-empty text, as positions of the flat list
EntriesOf(nodes, parent) ==
    { i \in 1..Len(nodes) :
        nodes[i].parent_id = parent /\ nodes[i].widget_type \in ENTRY_TYPES }

LabelsOf(nodes, parent) ==
    { i \in 1..Len(nodes) :
        /\ nodes[i].parent_id = parent
        /\ nodes[i].widget_type \in { "CTkLabel", "TLabel", "Label" }
        /\ nodes[i].text # "" }

\* the last max(0, E - L) entries of a container in tree order
StatedUnlabelled(nodes, parent) ==
    LET E == EntriesOf(nodes, parent)
        L == LabelsOf(nodes, parent)
    IN  { i \in E :
            Cardinality({ j \in E : j >= i })
                <= Max(0, Cardinality(E) - Cardinality(L)) }

\* C13: for every container with E entry-type children and L label-type
\* children (CTkLabel, TLabel, Label) with non-empty text, the missing-label
\* check emits exactly max(0, E - L) missing_label issues, all of severity
\* high, for the last E - L entries of the container in tree order; none when
\* L >= E; the labels of other containers do not count.
C13_MissingLabels ==
    check_result.check = "_check_missing_labels" =>
        LET found == check_result.value
            parents == { flat_list[i].test_id : i \in 1..Len(flat_list) }
        IN  /\ \A k \in 1..Len(found) :
                  /\ found[k].rule_id = "missing_label"
                  /\ found[k].severity = "high"
            /\ \A p \in parents :
                  LET stated == StatedUnlabelled(flat_list, p)
                      mine == { k \in 1..Len(found) :
                                  \E i \in EntriesOf(flat_list, p) :
                                     flat_list[i].test_id = found[k].widget_id }
                  IN  /\ Cardinality(mine) = Cardinality(stated)
                      /\ \A i \in stated :
                            \E k \in mine :
                               found[k].widget_id = flat_list[i].test_id


\* ------------------- specification: a disabled button in a pass of the rules

\* the widgets a container of the snapshots holds: a disabled and an enabled
\* "Reset" button, a disabled "Help" button, a disabled entry, a label that
\* explains, a label that does not
DisabledKinds ==
    { Kind("CTkButton", "Reset", FALSE), Kind("Button", " RESET ", TRUE),
      Kind("CTkButton", "Help", FALSE), Kind("CTkEntry", "", FALSE),
      Kind("CTkLabel", "Fill in the required fields first", TRUE),
      Kind("Label", "Name", TRUE) }

\* the widgets the second container holds
OtherDisabledKinds ==
    { Kind("CTkLabel", "Fill in the required fields first", TRUE) }

DisabledSnapshots ==
    { form_heap(kids, others) :
        kids \in SeqsUpTo(DisabledKinds, MaxSiblings - 1),
        others \in SeqsUpTo(OtherDisabledKinds, 1) }

\* the ids a caller toggles between passes
PassToggleIds == { "disabled_without_reason", "text_content_quality", "unknown" }

\* runner.py:44-63: the runner's checkers and its rule engine with the
\* built-in rules, and a snapshot
InitDisabled ==
    /\ severity_deductions = DefaultDeductions
    /\ ScoreIdle
    /\ ReportIdle
    /\ RegistryIdle
    /\ RunnerIdle
    /\ CheckIdle
    /\ TabIdle
    /\ rules = register_builtin_rules
    /\ engine_result = Returned("__init__", << >>)
    /\ disabled_ids = {}
    /\ config_attrs = ValidatorConfigFields
    /\ heap \in DisabledSnapshots
    /\ widget_tree = 1
    /\ tree_before = heap
    /\ flat = << >>
    /\ checker_outcome = [c \in Components |-> "not run"]
    /\ settings_read = {}

\* accessibility_checker.py:242-287 on the snapshot
CheckDisabledPrimaryActions ==
    /\ check_result' = Checked("_check_disabled_primary_actions", 0,
                               check_disabled_primary_actions(flat_list))
    /\ UNCHANGED << tabVars, severity_deductions, scoreVars, reportVars, ruleVars,
                    registryVars, passVars, runnerVars >>

\* rule_engine.py:123-136 on the snapshot
EvaluateTree ==
    /\ engine_result' = Returned("evaluate",
                                 evaluate_tree(rules, heap, widget_tree))
    /\ UNCHANGED << tabVars, severity_deductions, scoreVars, reportVars, registryVars,
                    passVars, runnerVars, checkVars, rules, disabled_ids >>

\* rule_engine.py:101-121 between two passes
ToggleRule ==
    /\ \E id \in PassToggleIds, on \in BOOLEAN :
          /\ rules' = set_enabled(rules, id, on)
          /\ disabled_ids' =
                IF on THEN disabled_ids \ {id}
                ELSE IF FirstWithId(rules, id) # 0 THEN disabled_ids \cup {id}
                ELSE disabled_ids
          /\ engine_result' =
                Returned(IF on THEN "enable_rule" ELSE "disable_rule", << >>)
    /\ UNCHANGED << tabVars, severity_deductions, scoreVars, reportVars, registryVars,
                    passVars, runnerVars, checkVars >>

NextDisabled ==
    \/ CheckDisabledPrimaryActions
    \/ EvaluateTree
    \/ ToggleRule

SpecDisabled == InitDisabled /\ [][NextDisabled]_vars

\* both components have run on the snapshot
BothRan ==
    /\ check_result.check = "_check_disabled_primary_actions"
    /\ engine_result.method = "evaluate"

\* the positions of the disabled buttons whose lowercased text holds a
\* primary-action keyword and whose parent holds no label with an explanatory
\* keyword
UnexplainedPrimary(nodes) ==
    { i \in 1..Len(nodes) :
        /\ nodes[i].widget_type \in BUTTON_TYPES
        /\ ~nodes[i].enabled
        /\ keywords_in(lower_strip(nodes[i].text)) \cap primary_keywords # {}
        /\ ~\E j \in 1..Len(nodes) :
              /\ nodes[j].parent_id = nodes[i].parent_id
              /\ nodes[j].widget_type \in { "CTkLabel", "TLabel", "Label" }
              /\ keywords_in(lower_strip(nodes[j].text)) \cap hint_keywords
                    # {} }

\* the number of results of a list under a rule id for a widget
CountOf(found, rule_id, severity, widget_id) ==
    Cardinality({ k \in 1..Len(found) :
        /\ found[k].rule_id = rule_id
        /\ found[k].severity = severity
        /\ found[k].widget_id = widget_id })

\* the rule-engine rule is enabled
ReasonRuleOn == rules[FirstWithId(rules, "disabled_without_reason")].enabled

\* C14: for every disabled button whose lowercased text holds a primary-action
\* keyword and whose parent has no label with an explanatory keyword, the
\* accessibility check gives one disabled_primary_action issue (medium) and the
\* rule engine one disabled_without_reason violation (low) for that node;
\* with the rule-engine rule disabled only the second is gone.
C14_BothFire ==
    BothRan =>
        \A i \in UnexplainedPrimary(flat_list) :
            /\ CountOf(check_result.value, "disabled_primary_action", "medium",
                       flat_list[i].test_id) = 1
            /\ ReasonRuleOn =>
                  CountOf(engine_result.value, "disabled_without_reason",
                          "low", flat_list[i].test_id) = 1
            /\ ~ReasonRuleOn =>
                  \A k \in 1..Len(engine_result.value) :
                      engine_result.value[k].rule_id # "disabled_without_reason"

\* both results are there for a disabled "Reset" button
C14_Witness ==
    /\ BothRan
    /\ ReasonRuleOn
    /\ \E i \in UnexplainedPrimary(flat_list) :
          /\ flat_list[i].text = "Reset"
          /\ CountOf(check_result.value, "disabled_primary_action", "medium",
                     flat_list[i].test_id) = 1
          /\ CountOf(engine_result.value, "disabled_without_reason", "low",
                     flat_list[i].test_id) = 1


\* ------------------------------- specification: the interaction score

\* most interaction attempts recorded before the score is computed
MaxAttempts == 3

\* event_simulator.py:85-331, the actions whose results are recorded
AttemptActions == { "click", "focus", "type_text" }

\* event_simulator.py:29-43, the results the simulator has recorded
AttemptLists ==
    { [i \in 1..Len(q) |->
          [action |-> q[i][1], widget_id |-> "w", success |-> q[i][2]]] :
        q \in SeqsUpTo(AttemptActions \X BOOLEAN, MaxAttempts) }

InitInteraction ==
    /\ severity_deductions = DefaultDeductions
    /\ ScoreIdle
    /\ RulesIdle
    /\ RegistryIdle
    /\ PassIdle
    /\ RunnerIdle
    /\ CheckIdle
    /\ TabIdle
    /\ layout_violations = << >>
    /\ contrast_issues = << >>
    /\ accessibility_issues = << >>
    /\ ux_issues = << >>
    /\ consistency_issues = << >>
    /\ rule_violations = << >>
    /\ interaction_results \in AttemptLists
    /\ clock = 0
    /\ overall_score = NoScore
    /\ report = NoReport
    /\ prev_report = NoReport

\* json_serializer.py:192-208 on the recorded results
ComputeInteractionScore ==
    /\ check_result' =
          Checked("_compute_interaction_score", 0,
                  << compute_interaction_score(interaction_results) >>)
    /\ UNCHANGED << tabVars, severity_deductions, scoreVars, reportVars, ruleVars,
                    registryVars, passVars, runnerVars >>

NextInteraction == ComputeInteractionScore

SpecInteraction == InitInteraction /\ [][NextInteraction]_vars

\* the recorded attempts, and those with success = true
Attempts == Len(interaction_results)
Successes ==
    Cardinality({ i \in 1..Len(interaction_results) :
                    interaction_results[i].success })

\* the score computed, in hundredths of a point
InteractionScore == check_result.value[1]

\* C16 as stated: the interaction score is 100.0 with no attempts recorded,
\* else exactly 100 * successes / attempts; it is within [0, 100] and 0 only
\* when every attempt failed.
C16_ExactPercentage ==
    check_result.check = "_compute_interaction_score" =>
        /\ Attempts = 0 => InteractionScore = 10000
        /\ Attempts > 0 => InteractionScore * Attempts = 10000 * Successes
        /\ InteractionScore \in 0..10000
        /\ InteractionScore = 0 => Attempts > 0 /\ Successes = 0

\* C16: the interaction score is 100.0 with no attempts recorded, else
\* 100 * successes / attempts rounded to two decimals (no further than 0.005
\* from it); it is within [0, 100], 0 when every attempt failed, and otherwise
\* 0 only if fewer than one attempt in 20000 succeeded.
C16_RoundedPercentage ==
    check_result.check = "_compute_interaction_score" =>
        /\ Attempts = 0 => InteractionScore = 10000
        /\ Attempts > 0 =>
              /\ 2 * (InteractionScore * Attempts - 10000 * Successes)
                    <= Attempts
              /\ 2 * (10000 * Successes - InteractionScore * Attempts)
                    <= Attempts
        /\ InteractionScore \in 0..10000
        /\ Attempts > 0 /\ Successes = 0 => InteractionScore = 0
        /\ InteractionScore = 0 => Attempts > 0 /\ 20000 * Successes <= Attempts

\* one success in three attempts has scored 33.33, and two in three 66.67
C16_Witness ==
    /\ check_result.check = "_compute_interaction_score"
    /\ Attempts = 3
    /\ \/ Successes = 1 /\ InteractionScore = 3333
       \/ Successes = 2 /\ InteractionScore = 6667


\* ------------------------------------------ specification: the tab order

\* the live widgets' handles (id(widget)); h3 is of a type that is not
\* interactive when the widgets are of several kinds
Handles == { "h1", "h2", "h3" }

\* most iterations of the focus loop
MaxVisits == 6

\* the test ids in str order
TabIds == << "a", "b", "c" >>

\* the position of a test id in str order
id_rank(test_id) == CHOOSE i \in 1..Len(TabIds) : TabIds[i] = test_id

\* what tk_focusNext() gives: a widget, nothing, or a TclError
FocusValues == Handles \cup { None, "TclError" }

\* a live widget: type(widget).__name__, winfo_viewable() (or the TclError of
\* a destroyed widget), cget("state"), winfo_rootx(), winfo_rooty()
Live(widget_type, viewable, state, rootx, rooty) ==
    [widget_type |-> widget_type, viewable |-> viewable, state |-> state,
     rootx |-> rootx, rooty |-> rooty]

LiveKinds ==
    { Live("CTkButton", "yes", "normal", 50, 10),
      Live("CTkEntry", "yes", "normal", 10, 10),
      Live("CTkButton", "yes", "disabled", 10, 40),
      Live("CTkButton", "no", "normal", 10, 5),
      Live("CTkLabel", "yes", "normal", 0, 0),
      Live("CTkCheckBox", "TclError", "normal", 0, 0) }

\* the registries after injection: nothing registered, two of the three
\* widgets, all three (test ids not in the order of the handles)
Registrations ==
    { << >>,
      ("b" :> "h1") @@ ("a" :> "h2"),
      ("c" :> "h1") @@ ("a" :> "h2") @@ ("b" :> "h3") }

\* widget_registry.py:27-44, the reverse map register keeps
reverse_of(by_id) ==
    [h \in { by_id[t] : t \in DOMAIN by_id } |->
        CHOOSE t \in DOMAIN by_id : by_id[t] = h]

\* three buttons shown, every focus function; or widgets of every kind, with
\* a focus chain that is empty or holds the first widget
InitTabOrder ==
    /\ severity_deductions = DefaultDeductions
    /\ ScoreIdle
    /\ ReportIdle
    /\ RulesIdle
    /\ PassIdle
    /\ RunnerIdle
    /\ CheckIdle
    /\ id_to_widget \in Registrations
    /\ widget_id_to_test_id = reverse_of(id_to_widget)
    /\ registry_call = RegistryCall("__init__", None, None, None)
    /\ registry_before = [id_to_widget |-> << >>, widget_id_to_test_id |-> << >>]
    /\ \/ /\ live = [h \in Handles |-> Live("CTkButton", "yes", "normal", 10, 10)]
          /\ focus_first \in FocusValues
          /\ focus_next \in [Handles -> FocusValues]
       \/ /\ live \in [Handles -> LiveKinds]
          /\ focus_first \in { None, "h1" }
          /\ focus_next = [h \in Handles |-> None]
    /\ tab_pc = "idle"
    /\ tab_current = None
    /\ tab_visited = << >>
    /\ tab_visited_ids = {}
    /\ tab_visits = << >>
    /\ tab_result = << >>

\* accessibility_checker.py:378-389 (_find_root): the toplevel of the first
\* registered widget that is alive, or None
find_root ==
    IF \E t \in DOMAIN id_to_widget : live[id_to_widget[t]].viewable # "TclError"
    THEN "root" ELSE None

\* accessibility_checker.py:130-144: compute_tab_order calls
\* _compute_tk_tab_order, which finds the root and the first focusable widget
TabStart ==
    /\ tab_pc = "idle"
    /\ tab_visited' = << >>
    /\ tab_visited_ids' = {}
    /\ tab_visits' = << >>
    /\ IF find_root = None \/ focus_first \in { None, "TclError" }
       THEN /\ tab_pc' = "primary_done"
            /\ tab_current' = None
       ELSE /\ tab_pc' = "loop"
            /\ tab_current' = focus_first
    /\ UNCHANGED << severity_deductions, scoreVars, reportVars, ruleVars,
                    registryVars, passVars, runnerVars, checkVars, live,
                    focus_first, focus_next, tab_result >>

\* a variant of the test `wid in visited_ids` that never finds the handle
seen_never(wid, ids) == FALSE

\* accessibility_checker.py:148-149
seen(wid, ids) == wid \in ids

\* accessibility_checker.py:146-161, one iteration of the loop
TabLoop ==
    /\ tab_pc = "loop"
    /\ Len(tab_visits) < MaxVisits
    /\ IF seen(tab_current, tab_visited_ids)
       THEN /\ tab_pc' = "primary_done"
            /\ UNCHANGED << tab_current, tab_visited, tab_visited_ids,
                            tab_visits >>
       ELSE LET test_id == registry_get_id(tab_current)
                nxt == focus_next[tab_current]
            IN  /\ tab_visited_ids' = tab_visited_ids \cup { tab_current }
                /\ tab_visits' = Append(tab_visits, tab_current)
                /\ tab_visited' = IF test_id # None
                                  THEN Append(tab_visited, test_id)
                                  ELSE tab_visited
                /\ IF nxt = "TclError" \/ nxt = tab_current \/ nxt = None
                   THEN tab_pc' = "primary_done" /\ UNCHANGED tab_current
                   ELSE tab_pc' = "loop" /\ tab_current' = nxt
    /\ UNCHANGED << severity_deductions, scoreVars, reportVars, ruleVars,
                    registryVars, passVars, runnerVars, checkVars, live,
                    focus_first, focus_next, tab_result >>

\* the key (abs_y, abs_x, test_id) of one test id sorts before another's
sorts_before(t, u) ==
    LET a == live[id_to_widget[t]]
        b == live[id_to_widget[u]]
    IN  \/ a.rooty < b.rooty
        \/ a.rooty = b.rooty /\ a.rootx < b.rootx
        \/ a.rooty = b.rooty /\ a.rootx = b.rootx /\ id_rank(t) < id_rank(u)

\* list.sort() of the tuples (abs_y, abs_x, test_id), as the test ids
RECURSIVE sorted_ids(_)
sorted_ids(S) ==
    IF S = {} THEN << >>
    ELSE LET least == CHOOSE t \in S : \A u \in S \ { t } : sorts_before(t, u)
         IN  << least >> \o sorted_ids(S \ { least })

\* a variant that lists, for each registered pair, the id the reverse lookup
\* gives for its widget
compute_geometry_tab_order_by_widget ==
    LET ordered == sorted_ids({ t \in DOMAIN id_to_widget :
                     /\ live[id_to_widget[t]].widget_type \in INTERACTIVE_TYPES
                     /\ live[id_to_widget[t]].viewable = "yes" })
    IN  [i \in 1..Len(ordered) |-> registry_get_id(id_to_widget[ordered[i]])]

\* accessibility_checker.py:164-184
compute_geometry_tab_order ==
    sorted_ids({ t \in DOMAIN id_to_widget :
                   /\ live[id_to_widget[t]].widget_type \in INTERACTIVE_TYPES
                   /\ live[id_to_widget[t]].viewable = "yes" })

\* accessibility_checker.py:119-122: compute_tab_order returns
TabReturn ==
    /\ tab_pc = "primary_done"
    /\ tab_pc' = "returned"
    /\ tab_result' = IF tab_visited # << >> THEN tab_visited
                     ELSE compute_geometry_tab_order
    /\ UNCHANGED << severity_deductions, scoreVars, reportVars, ruleVars,
                    registryVars, passVars, runnerVars, checkVars, live,
                    focus_first, focus_next, tab_current, tab_visited,
                    tab_visited_ids, tab_visits >>

NextTabOrder ==
    \/ TabStart
    \/ TabLoop
    \/ TabReturn

SpecTabOrder == InitTabOrder /\ [][NextTabOrder]_vars

\* the call is scheduled until it returns
SpecTabOrderFair == SpecTabOrder /\ WF_vars(NextTabOrder)

\* the forward-focus chain from a handle: each handle up to, and without, the
\* first one that is nothing, an error, or already in the chain
RECURSIVE chain_from(_, _)
chain_from(h, before) ==
    IF h \notin Handles \/ h \in before THEN << >>
    ELSE << h >> \o chain_from(focus_next[h], before \cup { h })

\* the test ids of the registered handles of a list, in its order
RECURSIVE ids_of(_)
ids_of(handles) ==
    IF handles = << >> THEN << >>
    ELSE (IF Head(handles) \in DOMAIN widget_id_to_test_id
          THEN << widget_id_to_test_id[Head(handles)] >> ELSE << >>)
         \o ids_of(Tail(handles))

\* the primary computation has returned
PrimaryDone == tab_pc \in { "primary_done", "returned" }

\* no handle has been visited twice, and once the primary computation has
\* returned, with a root and a first widget, it has visited the chain from the
\* first widget and returned the test ids of its registered handles in order
VisitsOnce ==
    /\ \A i, j \in 1..Len(tab_visits) : tab_visits[i] = tab_visits[j] => i = j
    /\ Len(tab_visits) <= Cardinality(Handles)
    /\ PrimaryDone =>
          /\ tab_visits = IF find_root = None THEN << >>
                          ELSE chain_from(focus_first, {})
          /\ tab_visited = ids_of(tab_visits)

\* C17: the primary tab-order computation terminates for every forward-focus
\* function over the live handles (a chain ending in nothing, a self-loop, a
\* cycle through the first element, a cycle that does not return to it): it
\* stops at the first handle it has already seen, visits each handle at most
\* once, and returns the test ids of the visited registered handles in visit
\* order.
C17_TabOrderTerminates == []VisitsOnce /\ <>PrimaryDone

\* the loop has ended on a cycle that does not return to the first handle,
\* with an unregistered handle among the visited
C17_Witness ==
    /\ tab_pc = "primary_done"
    /\ Len(tab_visits) = 3
    /\ focus_next[tab_visits[3]] = tab_visits[2]
    /\ Len(tab_visited) = 2


\* the registered widgets that are visible, enabled and of an interactive
\* type, by test id
StatedFallback ==
    { t \in DOMAIN id_to_widget :
        /\ live[id_to_widget[t]].widget_type \in INTERACTIVE_TYPES
        /\ live[id_to_widget[t]].viewable = "yes"
        /\ live[id_to_widget[t]].state # "disabled" }

\* a list of test ids ascends by (absolute y, absolute x)
AscendingByYX(ids) ==
    \A i, j \in 1..Len(ids) :
        i < j =>
            LET a == live[id_to_widget[ids[i]]]
                b == live[id_to_widget[ids[j]]]
            IN  \/ a.rooty < b.rooty
                \/ a.rooty = b.rooty /\ a.rootx <= b.rootx

\* C18: compute_tab_order returns the primary focus chain whenever that chain
\* is non-empty, and otherwise exactly the widgets that are visible, enabled
\* and of an interactive type, ascending by (absolute y, absolute x); a
\* disabled or invisible widget never appears in the fallback order.
C18_TabOrderFallback ==
    tab_pc = "returned" =>
        IF tab_visited # << >> THEN tab_result = tab_visited
        ELSE /\ { tab_result[i] : i \in 1..Len(tab_result) } = StatedFallback
             /\ Len(tab_result) = Cardinality(StatedFallback)
             /\ AscendingByYX(tab_result)
             /\ \A i \in 1..Len(tab_result) :
                   /\ live[id_to_widget[tab_result[i]]].state # "disabled"
                   /\ live[id_to_widget[tab_result[i]]].viewable = "yes"


\* ------------------------- specification: the checks on sizes and edges

\* consistency_checker.py:12-56; a size issue has no related widget
ConsistencyIssue(rule_id, severity, widget_id, measured_value, threshold) ==
    [rule_id |-> rule_id, severity |-> severity, widget_id |-> widget_id,
     related_widget_id |-> None, measured_value |-> measured_value,
     threshold |-> threshold]

\* abs(x - avg) / avg * 100 for avg = total / n, in hundredths of a percent;
\* 0 when the average is not positive
deviation(x, n, total) ==
    IF total > 0 THEN (abs(x * n - total) * 10000) \div total ELSE 0

\* abs(x - avg) / avg * 100 > tolerance_pct, exactly
deviates(x, n, total, tolerance_pct) ==
    total > 0 /\ abs(x * n - total) * 100 > tolerance_pct * total

\* consistency_checker.py:125-179, given the value of
\* config.inconsistent_size_tolerance_pct
check_sibling_size_consistency(nodes, target_types, rule_id, tolerance_pct) ==
    LET is_target(node) ==
            node["widget_type"] \in target_types /\ node["width"] > 0
        targets == SelectSeq(nodes, is_target)
        parents == keys_in_order(targets, "parent_id")
    IN  ConcatAll([p \in 1..Len(parents) |->
            LET siblings == group_of(targets, "parent_id", parents[p])
                n == Len(siblings)
                sum_w == SumSeq([i \in 1..n |-> siblings[i]["width"]])
                sum_h == SumSeq([i \in 1..n |-> siblings[i]["height"]])
            IN  IF n < 2 \/ (sum_w = 0 /\ sum_h = 0) THEN << >>
                ELSE ConcatAll([i \in 1..n |->
                        LET w == siblings[i]["width"]
                            h == siblings[i]["height"]
                        IN  IF \/ deviates(w, n, sum_w, tolerance_pct)
                               \/ deviates(h, n, sum_h, tolerance_pct)
                            THEN << ConsistencyIssue(rule_id, "low",
                                        siblings[i]["test_id"],
                                        Max(deviation(w, n, sum_w),
                                            deviation(h, n, sum_h)),
                                        tolerance_pct) >>
                            ELSE << >>])])

\* core/config.py:43
alignment_tolerance_px == 3

\* core/config.py:44
symmetry_tolerance_px == 10

\* the number of times a value is in a list (list.count)
count_in(values, x) ==
    Cardinality({ i \in 1..Len(values) : values[i] = x })

\* layout_metrics.py:440, max(set(left_edges), key=left_edges.count): a most
\* frequent edge; among several, the first in the set's order, taken here as
\* the smallest or the largest
most_common(values, largest) ==
    LET modes == { values[i] : i \in { j \in 1..Len(values) :
                      \A k \in 1..Len(values) :
                          count_in(values, values[k])
                            <= count_in(values, values[j]) } }
    IN  CHOOSE x \in modes :
            \A y \in modes : IF largest THEN y <= x ELSE x <= y

\* layout_metrics.py:429-465
check_alignment_group(siblings, tolerance, largest) ==
    LET has_width(node) == node["width"] > 0
        wide == SelectSeq(siblings, has_width)
        left_edges == [i \in 1..Len(wide) |-> wide[i]["abs_x"]]
    IN  IF Len(siblings) < 3 \/ Len(left_edges) < 3 THEN << >>
        ELSE LET most_common_x == most_common(left_edges, largest)
             IN  ConcatAll([i \in 1..Len(wide) |->
                    LET diff == abs(wide[i]["abs_x"] - most_common_x)
                    IN  IF 0 < diff /\ diff > tolerance
                        THEN << LayoutViolation("alignment_inconsistency",
                                    "low", wide[i]["test_id"], None, diff,
                                    tolerance) >>
                        ELSE << >>])

\* a variant of the column index that puts every sibling in column 0
col_idx_always_zero(node) == 0

\* layout_metrics.py:414-420: the column of a sibling, layout_detail's "col"
\* (kept as the node's "col"), 0 when there is none
col_idx(node) == IF "col" \in DOMAIN node THEN node["col"] ELSE 0

\* layout_metrics.py:375-427
check_alignment(nodes, tolerance, largest) ==
    LET groups == sibling_groups(nodes)
    IN  ConcatAll([g \in 1..Len(groups) |->
            LET siblings == groups[g]
                grid_managed ==
                    \E i \in 1..Len(siblings) :
                       /\ "layout_manager" \in DOMAIN siblings[i]
                       /\ siblings[i]["layout_manager"] = "grid"
                with_col == [i \in 1..Len(siblings) |->
                                ("col" :> col_idx(siblings[i])) @@ siblings[i]]
                cols == keys_in_order(with_col, "col")
            IN  IF Len(siblings) < 3 THEN << >>
                ELSE IF grid_managed
                THEN ConcatAll([c \in 1..Len(cols) |->
                        check_alignment_group(
                            group_of(with_col, "col", cols[c]),
                            Max(tolerance * 3, 10), largest)])
                ELSE check_alignment_group(siblings, tolerance, largest)])

\* len(text) of the texts of the snapshots
text_len(text) ==
    CASE text = "" -> 0
      [] text \in { "Name", "Help" } -> 4
      [] text \in { "Group", "Reset" } -> 5
      [] text = "Button" -> 6
      [] text = " RESET " -> 7
      [] text = "Fill in the required fields first" -> 33

\* layout_metrics.py:617-678; widths in tenths of a pixel
check_content_truncation_risk(nodes) ==
    LET label_types ==
            { "CTkLabel", "TLabel", "Label", "CTkButton", "TButton", "Button" }
        char_width(node) ==
            IF "font_size" \in DOMAIN node /\ node["font_size"] # 0
            THEN Max(50, abs(node["font_size"]) * 6) ELSE 80
        at_risk(node) ==
            /\ node["widget_type"] \in label_types
            /\ node["visibility"]
            /\ text_len(node["text"]) >= 5
            /\ node["width"] > 0
            /\ node["width"] - 16 > 0
            /\ text_len(node["text"]) * char_width(node)
                  > (node["width"] - 16) * 12
        hits == SelectSeq(nodes, at_risk)
    IN  [i \in 1..Len(hits) |->
            LayoutViolation("content_truncation_risk", "low",
                            hits[i]["test_id"], None,
                            text_len(hits[i]["text"]) * char_width(hits[i]),
                            (hits[i]["width"] - 16) * 10)]

\* a node of a snapshot of sized buttons (tree_extractor.py:96-125)
SizedNode(test_id, widget_type, parent_id, box, text, children) ==
    [test_id |-> test_id, widget_type |-> widget_type, parent_id |-> parent_id,
     abs_x |-> box[1], abs_y |-> box[2], width |-> box[3], height |-> box[4],
     text |-> text, visibility |-> TRUE, children |-> children]

\* the buttons of the snapshots: two of one size on one edge, one of zero
\* height and one of zero width on another edge, a narrow one, one of the
\* common size on the other edge
SizedKinds ==
    { [box |-> << 0, 0, 100, 30 >>, text |-> "Reset"],
      [box |-> << 0, 40, 100, 30 >>, text |-> "Help"],
      [box |-> << 20, 80, 100, 0 >>, text |-> "Button"],
      [box |-> << 20, 80, 0, 30 >>, text |-> "Help"],
      [box |-> << 0, 120, 40, 30 >>, text |-> "Button"],
      [box |-> << 20, 160, 100, 30 >>, text |-> "Help"] }

sized_heap(kids) ==
    [a \in 1..(Len(kids) + 1) |->
        IF a = 1
        THEN SizedNode("root", "CTk", None, << 0, 0, 400, 300 >>, "",
                       [i \in 1..Len(kids) |-> i + 1])
        ELSE SizedNode(ChildIds[a - 1], "CTkButton", "root", kids[a - 1].box,
                       kids[a - 1].text, << >>)]

SizedSnapshots == { sized_heap(kids) : kids \in SeqsUpTo(SizedKinds, MaxSiblings) }

\* the values a caller gives config.inconsistent_size_tolerance_pct
SizeTolerances == { 20 }

InitSizes ==
    /\ severity_deductions = DefaultDeductions
    /\ ScoreIdle
    /\ ReportIdle
    /\ RulesIdle
    /\ RegistryIdle
    /\ RunnerIdle
    /\ CheckIdle
    /\ TabIdle
    /\ config_attrs \in { ValidatorConfigFields,
                          ValidatorConfigFields \cup ExtraAttrs }
    /\ heap \in SizedSnapshots
    /\ widget_tree = 1
    /\ tree_before = heap
    /\ flat = << >>
    /\ checker_outcome = [c \in Components |-> "not run"]
    /\ settings_read = {}

\* consistency_checker.py:108-115 and 125-179 on the snapshot: the sizes of
\* sibling buttons; reading the tolerance off a config without the attribute
\* raises AttributeError
CheckButtonSizes ==
    /\ \E tolerance_pct \in SizeTolerances :
          IF "inconsistent_size_tolerance_pct" \in config_attrs
          THEN /\ check_result' =
                    Checked("_check_sibling_size_consistency", tolerance_pct,
                            check_sibling_size_consistency(flat_list,
                                BUTTON_TYPES, "inconsistent_button_size",
                                tolerance_pct))
               /\ checker_outcome' =
                    [checker_outcome EXCEPT !["ConsistencyChecker.check"] =
                        "returned"]
          ELSE /\ check_result' = Checked(None, 0, << >>)
               /\ checker_outcome' =
                    [checker_outcome EXCEPT !["ConsistencyChecker.check"] =
                        "AttributeError"]
    /\ settings_read' = settings_read \cup { "inconsistent_size_tolerance_pct" }
    /\ UNCHANGED << tabVars, severity_deductions, scoreVars, reportVars, ruleVars,
                    registryVars, runnerVars, config_attrs, heap, widget_tree,
                    tree_before, flat >>

\* layout_metrics.py:375-465 on the snapshot; the setting records which of
\* several most frequent edges was taken (0 the smallest, 1 the largest)
CheckAlignment ==
    /\ \E largest \in BOOLEAN :
          check_result' =
              Checked("_check_alignment", IF largest THEN 1 ELSE 0,
                      check_alignment(flat_list, alignment_tolerance_px,
                                      largest))
    /\ UNCHANGED << tabVars, severity_deductions, scoreVars, reportVars, ruleVars,
                    registryVars, passVars, runnerVars >>

\* layout_metrics.py:617-678 on the snapshot
CheckContentTruncationRisk ==
    /\ check_result' = Checked("_check_content_truncation_risk", 0,
                               check_content_truncation_risk(flat_list))
    /\ UNCHANGED << tabVars, severity_deductions, scoreVars, reportVars, ruleVars,
                    registryVars, passVars, runnerVars >>

NextSizes ==
    \/ CheckButtonSizes
    \/ CheckAlignment
    \/ CheckContentTruncationRisk

SpecSizes == InitSizes /\ [][NextSizes]_vars

\* a node of zero width or zero height
zero_sized(node) == node.width = 0 \/ node.height = 0

\* the snapshot's flat list without its zero-sized nodes
RECURSIVE sized_only(_)
sized_only(nodes) ==
    IF nodes = << >> THEN << >>
    ELSE (IF zero_sized(Head(nodes)) THEN << >> ELSE << Head(nodes) >>)
         \o sized_only(Tail(nodes))

\* what the latest check gives on a list of nodes
SameCheckOn(nodes) ==
    CASE check_result.check = "_check_sibling_size_consistency" ->
            check_sibling_size_consistency(nodes, BUTTON_TYPES,
                "inconsistent_button_size", check_result.setting)
      [] check_result.check = "_check_alignment" ->
            check_alignment(nodes, alignment_tolerance_px,
                            check_result.setting = 1)
      [] check_result.check = "_check_content_truncation_risk" ->
            check_content_truncation_risk(nodes)

\* C19: a node whose width is 0 or whose height is 0 is never the subject
\* (widget_id or related_widget_id) of a violation of the sibling-size, the
\* alignment or the truncation check, and it contributes to no mean or most
\* frequent edge: each check gives what it gives on the snapshot without its
\* zero-sized nodes.
C19_ZeroSizeExcluded ==
    check_result.check \in { "_check_sibling_size_consistency",
                             "_check_alignment",
                             "_check_content_truncation_risk" } =>
        /\ \A k \in 1..Len(check_result.value) :
              \A i \in 1..Len(flat_list) :
                  zero_sized(flat_list[i]) =>
                      /\ check_result.value[k].widget_id # flat_list[i].test_id
                      /\ check_result.value[k].related_widget_id
                            # flat_list[i].test_id
        /\ check_result.value = SameCheckOn(sized_only(flat_list))

\* ------------------------------------ specification: hex colour parsing

\* the longest run of characters drawn freely
MaxHexLen == 3

\* the characters of a colour string: two digits, a letter that is no digit,
\* the sign and the hash
HexAlphabet == { "0", "f", "g", "-", "#" }

\* n times the character c
repeat(c, n) == [i \in 1..n |-> c]

\* the colour strings parsed: up to two leading hashes before every short run
\* of characters, and before runs of 4 to 10 characters "7" with at most one
\* character replaced; the empty string is left out, being the null colour
\* of a snapshot
HexStrings ==
    LET short == SeqsUpTo(HexAlphabet, MaxHexLen)
        long == { [repeat("7", n) EXCEPT ![k] = c] :
                    n \in 4..10, k \in 1..10, c \in HexAlphabet \cup { "7" } }
    IN  { repeat("#", h) \o body : h \in 0..2, body \in short \cup long }
            \ { Null }

InitHex ==
    /\ severity_deductions = DefaultDeductions
    /\ ScoreIdle
    /\ ReportIdle
    /\ RulesIdle
    /\ RegistryIdle
    /\ RunnerIdle
    /\ CheckIdle
    /\ TabIdle
    /\ config_attrs = ValidatorConfigFields
    /\ heap \in { contrast_heap("Status: Ready", fg, Gray6("f", "f"), Null) :
                    fg \in HexStrings }
    /\ widget_tree = 1
    /\ tree_before = heap
    /\ flat = << >>
    /\ checker_outcome = [c \in Components |-> "not run"]
    /\ settings_read = {}

\* the string parsed: the foreground colour of the text node
colour_parsed == flat_list[2]["fg_color"]

\* contrast_checker.py:99 and 208-239: the foreground colour is parsed
HexToRgb ==
    /\ check_result' = Checked("_hex_to_rgb", 0, hex_to_rgb(colour_parsed))
    /\ UNCHANGED << tabVars, severity_deductions, scoreVars, reportVars, ruleVars,
                    registryVars, passVars, runnerVars >>

NextHex == HexToRgb

SpecHex == InitHex /\ [][NextHex]_vars

\* a string of the form "#" followed by 3, 6 or 9 hexadecimal digits
stated_hex_form(chars) ==
    /\ Len(chars) \in { 4, 7, 10 }
    /\ chars[1] = "#"
    /\ \A i \in 2..Len(chars) :
          chars[i] \in { "0", "1", "2", "3", "4", "5", "6", "7", "8", "9",
                         "a", "b", "c", "d", "e", "f",
                         "A", "B", "C", "D", "E", "F" }

\* C21: parsing returns a triple of channels in 0..255 exactly for the
\* strings "#" + 3, 6 or 9 hexadecimal digits, and None for every other
\* string.
C21_HexForms ==
    check_result.check = "_hex_to_rgb" =>
        /\ stated_hex_form(colour_parsed) <=> check_result.value # NoRGB
        /\ check_result.value # NoRGB =>
              /\ Len(check_result.value) = 3
              /\ \A i \in 1..3 : check_result.value[i] \in 0..255

\* ------------------------------------ specification: alignment in a grid

\* the siblings of the snapshots: a left edge, and the grid column of a
\* grid-managed sibling (a packed sibling has no column); one sibling of each
\* manager has no width
GridKinds ==
    { [abs_x |-> x, layout_manager |-> "grid", col |-> c] :
        x \in { 0, 10, 11 }, c \in { 0, 1 } }
      \cup { [abs_x |-> x, layout_manager |-> "pack"] : x \in { 0, 4 } }
      \cup { [abs_x |-> 11, layout_manager |-> "grid", col |-> 0, width |-> 0],
             [abs_x |-> 11, layout_manager |-> "pack", width |-> 0] }

grid_heap(kids) ==
    [a \in 1..(Len(kids) + 1) |->
        IF a = 1
        THEN SizedNode("root", "CTk", None, << 0, 0, 400, 300 >>, "",
                       [i \in 1..Len(kids) |-> i + 1])
        ELSE kids[a - 1]
               @@ SizedNode(ChildIds[a - 1], "CTkButton", "root",
                            << kids[a - 1].abs_x, 40 * (a - 1), 100, 30 >>,
                            "Help", << >>)]

GridSnapshots == { grid_heap(kids) : kids \in SeqsUpTo(GridKinds, MaxSiblings) }

InitGrid ==
    /\ severity_deductions = DefaultDeductions
    /\ ScoreIdle
    /\ ReportIdle
    /\ RulesIdle
    /\ RegistryIdle
    /\ RunnerIdle
    /\ CheckIdle
    /\ TabIdle
    /\ config_attrs = ValidatorConfigFields
    /\ heap \in GridSnapshots
    /\ widget_tree = 1
    /\ tree_before = heap
    /\ flat = << >>
    /\ checker_outcome = [c \in Components |-> "not run"]
    /\ settings_read = {}

NextGrid == CheckAlignment

SpecGrid == InitGrid /\ [][NextGrid]_vars

\* the children of the window, in the snapshot's order
Siblings == SelectSeq(flat_list, LAMBDA node : node.parent_id = "root")

AnyGridManaged ==
    \E i \in 1..Len(Siblings) : Siblings[i].layout_manager = "grid"

\* the positions of the siblings of nonzero width checked together with
\* sibling i: its grid column when a sibling is grid-managed, the whole group
\* otherwise
checked_with(i) ==
    { j \in 1..Len(Siblings) :
        /\ Siblings[j].width > 0
        /\ AnyGridManaged =>
            (IF "col" \in DOMAIN Siblings[j] THEN Siblings[j].col ELSE 0)
              = (IF "col" \in DOMAIN Siblings[i] THEN Siblings[i].col ELSE 0) }

\* the most frequent left edges among the siblings at the positions G
frequent_edges(G) ==
    { Siblings[j].abs_x : j \in { m \in G : \A n \in G :
        Cardinality({ k \in G : Siblings[k].abs_x = Siblings[n].abs_x })
          <= Cardinality({ k \in G : Siblings[k].abs_x = Siblings[m].abs_x }) } }

flagged(i) ==
    \E k \in 1..Len(check_result.value) :
        /\ check_result.value[k].widget_id = Siblings[i].test_id
        /\ check_result.value[k].rule_id = "alignment_inconsistency"
        /\ check_result.value[k].severity = "low"

\* the statement of C22 with the tolerance of a grid column and the least size
\* of a column that is checked
alignment_statement(grid_tolerance, least) ==
    check_result.check = "_check_alignment" =>
        IF Len(Siblings) < 3 THEN check_result.value = << >>
        ELSE \A i \in 1..Len(Siblings) :
                LET G == checked_with(i)
                    tolerance == IF AnyGridManaged THEN grid_tolerance
                                 ELSE alignment_tolerance_px
                IN  IF Siblings[i].width = 0 THEN ~flagged(i)
                    ELSE IF Cardinality(G) < least
                    THEN \A j \in G : ~flagged(j)
                    ELSE \E edge \in frequent_edges(G) :
                            \A j \in G :
                                flagged(j) <=>
                                    abs(Siblings[j].abs_x - edge) > tolerance

\* C22 as stated: with a grid-managed sibling in a group of at least 3,
\* alignment is checked per grid column and a sibling is flagged
\* alignment_inconsistency (low) iff its left edge differs from the most
\* frequent left edge of its column by more than 3 * alignment_tolerance_px
\* (9 px); with no grid-managed sibling the plain tolerance applies to the
\* whole group.
C22_GridToleranceTripled == alignment_statement(3 * alignment_tolerance_px, 1)

\* C22: the same with the tolerance max(3 * alignment_tolerance_px, 10) (10 px)
\* and for the columns (or the group) of at least 3 siblings of nonzero width;
\* in a smaller one no sibling is flagged.
C22_GridToleranceFloor ==
    alignment_statement(Max(3 * alignment_tolerance_px, 10), 3)

\* a grid column of three where the sibling 11 px off is flagged and the
\* sibling 10 px off is not
C22_Witness ==
    /\ check_result.check = "_check_alignment"
    /\ AnyGridManaged
    /\ \E i, j \in 1..Len(Siblings) :
          /\ j \in checked_with(i)
          /\ Cardinality(checked_with(i)) >= 3
          /\ Siblings[i].abs_x = 11 /\ flagged(i)
          /\ Siblings[j].abs_x = 0 /\ ~flagged(j)

\* ------------------------------------ specification: the symmetry check

\* core/config.py:55-68
container_widget_types ==
    { "CTk", "CTkToplevel", "CTkFrame", "CTkScrollableFrame", "CTkTabview",
      "TFrame", "Frame", "LabelFrame", "Toplevel", "Tk" }

\* a variant of the test of the margins that leaves out the share of the
\* parent's width
asymmetric_beyond_tolerance_only(left_space, right_space, parent_width, tolerance) ==
    /\ abs(left_space - right_space) > tolerance
    /\ left_space > 0
    /\ right_space > 0

\* layout_metrics.py:522-524: the margins differ by more than the tolerance,
\* both are positive, and the difference exceeds parent_width * 0.3
asymmetric(left_space, right_space, parent_width, tolerance) ==
    /\ abs(left_space - right_space) > tolerance
    /\ left_space > 0
    /\ right_space > 0
    /\ abs(left_space - right_space) * 10 > parent_width * 3

\* layout_metrics.py:484: node_map[test_id], as the list of the nodes of that
\* id (empty when node_map.get gives None)
nodes_of_id(nodes, test_id) ==
    SelectSeq(nodes, LAMBDA node : node["test_id"] = test_id)

\* layout_metrics.py:467-544
check_symmetry(nodes, tolerance) ==
    LET groups == sibling_groups(nodes)
    IN  ConcatAll([g \in 1..Len(groups) |->
            LET children == groups[g]
                parent_id == children[1]["parent_id"]
                found == nodes_of_id(nodes, parent_id)
                parent_node == found[Len(found)]
                parent_width == parent_node["width"]
                parent_abs_x == parent_node["abs_x"]
                grid_managed ==
                    \E i \in 1..Len(children) :
                       /\ "layout_manager" \in DOMAIN children[i]
                       /\ children[i]["layout_manager"] = "grid"
            IN  IF parent_id = None \/ found = << >> THEN << >>
                ELSE IF parent_node["widget_type"] \notin container_widget_types
                THEN << >>
                ELSE IF parent_width <= 0 \/ Len(children) < 2 THEN << >>
                ELSE IF grid_managed THEN << >>
                ELSE ConcatAll([i \in 1..Len(children) |->
                        LET child == children[i]
                            cw == child["width"]
                            left_space == child["abs_x"] - parent_abs_x
                            right_space == (parent_abs_x + parent_width)
                                             - (child["abs_x"] + cw)
                        IN  IF cw <= 0 THEN << >>
                            ELSE IF asymmetric(left_space, right_space,
                                               parent_width, tolerance)
                            THEN << LayoutViolation("symmetry_deviation",
                                        "low", child["test_id"], parent_id,
                                        abs(left_space - right_space),
                                        tolerance) >>
                            ELSE << >>])])

\* the children of the snapshots' frame, which is 100 wide at x = 20: flush
\* left, 5 px from the left edge, centred, slightly off centre, past the
\* right edge, without width, invisible, grid-managed
SymmetryKinds ==
    { [abs_x |-> 20, width |-> 40], [abs_x |-> 25, width |-> 40],
      [abs_x |-> 50, width |-> 40], [abs_x |-> 40, width |-> 45],
      [abs_x |-> 90, width |-> 40], [abs_x |-> 25, width |-> 0],
      [abs_x |-> 25, width |-> 40, visibility |-> FALSE],
      [abs_x |-> 25, width |-> 40, layout_manager |-> "grid"] }

\* a window holding one widget of the given type, which holds the children
symmetry_heap(parent_type, kids) ==
    [a \in 1..(Len(kids) + 2) |->
        IF a = 1
        THEN SizedNode("root", "CTk", None, << 0, 0, 400, 300 >>, "", << 2 >>)
        ELSE IF a = 2
        THEN SizedNode("f1", parent_type, "root", << 20, 0, 100, 200 >>, "",
                       [i \in 1..Len(kids) |-> i + 2])
        ELSE kids[a - 2]
               @@ SizedNode(ChildIds[a - 2], "CTkButton", "f1",
                            << 0, 40 * (a - 2), 0, 30 >>, "Help", << >>)]

SymmetrySnapshots ==
    { symmetry_heap(parent_type, kids) :
        parent_type \in { "CTkFrame", "CTkButton" },
        kids \in SeqsUpTo(SymmetryKinds, MaxSiblings) }

InitSymmetry ==
    /\ severity_deductions = DefaultDeductions
    /\ ScoreIdle
    /\ ReportIdle
    /\ RulesIdle
    /\ RegistryIdle
    /\ RunnerIdle
    /\ CheckIdle
    /\ TabIdle
    /\ config_attrs = ValidatorConfigFields
    /\ heap \in SymmetrySnapshots
    /\ widget_tree = 1
    /\ tree_before = heap
    /\ flat = << >>
    /\ checker_outcome = [c \in Components |-> "not run"]
    /\ settings_read = {}

\* layout_metrics.py:467-544 on the snapshot
CheckSymmetry ==
    /\ check_result' = Checked("_check_symmetry", symmetry_tolerance_px,
                               check_symmetry(flat_list, symmetry_tolerance_px))
    /\ UNCHANGED << tabVars, severity_deductions, scoreVars, reportVars, ruleVars,
                    registryVars, passVars, runnerVars >>

NextSymmetry == CheckSymmetry

SpecSymmetry == InitSymmetry /\ [][NextSymmetry]_vars

\* the frame and its children in the snapshot
Frame == flat_list[2]
FrameChildren == SelectSeq(flat_list, LAMBDA node : node.parent_id = "f1")
VisibleFrameChildren == SelectSeq(FrameChildren, LAMBDA node : node.visibility)

left_margin(child) == child.abs_x - Frame.abs_x
right_margin(child) == (Frame.abs_x + Frame.width) - (child.abs_x + child.width)

\* the margins of a child differ by more than symmetry_tolerance_px and by
\* more than 30% of the parent's width
margins_differ(child) ==
    /\ abs(left_margin(child) - right_margin(child)) > 10
    /\ abs(left_margin(child) - right_margin(child)) * 10 > 3 * Frame.width

symmetry_flagged(child) ==
    \E k \in 1..Len(check_result.value) :
        /\ check_result.value[k].widget_id = child.test_id
        /\ check_result.value[k].related_widget_id = "f1"
        /\ check_result.value[k].rule_id = "symmetry_deviation"
        /\ check_result.value[k].severity = "low"

\* the children the statement is about: visible, of nonzero width, in a
\* recognised container without a grid-managed child
stated_children ==
    IF /\ Frame.widget_type \in container_widget_types
       /\ \A i \in 1..Len(VisibleFrameChildren) :
             "layout_manager" \notin DOMAIN VisibleFrameChildren[i]
    THEN { VisibleFrameChildren[i] :
             i \in { j \in 1..Len(VisibleFrameChildren) :
                       VisibleFrameChildren[j].width > 0 } }
    ELSE {}

\* C23 as stated: a visible child of nonzero width of a recognised container
\* without grid-managed children gets a symmetry_deviation (low) iff its
\* margins differ by more than symmetry_tolerance_px and 30% of the parent's
\* width, whatever the margins and the number of siblings.
C23_SymmetryWhateverMargins ==
    check_result.check = "_check_symmetry" =>
        \A child \in stated_children :
            symmetry_flagged(child) <=> margins_differ(child)

\* C23: the same for a container of at least 2 visible children, and only
\* for a child whose two margins are both positive; any other child is not
\* flagged.
C23_SymmetryPositiveMargins ==
    check_result.check = "_check_symmetry" =>
        /\ \A child \in stated_children :
              symmetry_flagged(child) <=>
                  /\ margins_differ(child)
                  /\ Len(VisibleFrameChildren) >= 2
                  /\ left_margin(child) > 0
                  /\ right_margin(child) > 0
        /\ \A k \in 1..Len(check_result.value) :
              \E child \in stated_children :
                  check_result.value[k].widget_id = child.test_id

\* a child 5 px from the left edge is flagged beside a centred sibling that
\* is not
C23_Witness ==
    /\ check_result.check = "_check_symmetry"
    /\ \E c, d \in stated_children :
          /\ left_margin(c) = 5 /\ symmetry_flagged(c)
          /\ left_margin(d) = 30 /\ ~symmetry_flagged(d)

\* ------------------------ specification: consistency and invisible nodes

\* consistency_checker.py:186-189
comparable_types ==
    BUTTON_TYPES \cup ENTRY_TYPES \cup
    { "CTkLabel", "TLabel", "Label", "CTkCheckBox", "TCheckBox", "Checkbutton" }

\* consistency_checker.py:201-205: the font of a sibling as the tuple
\* (family, size, weight), a missing part being ""
font_key(node) ==
    << node["font_family"],
       IF "font_size" \in DOMAIN node THEN << node["font_size"] >> ELSE "",
       IF "font_weight" \in DOMAIN node THEN node["font_weight"] ELSE "" >>

\* consistency_checker.py:181-229; the issue names the first two siblings of
\* the group (it has no measured value and no threshold)
check_inconsistent_fonts(nodes) ==
    LET has_font(node) ==
            /\ node["widget_type"] \in comparable_types
            /\ "font_family" \in DOMAIN node
            /\ node["font_family"] # ""
        fonted == SelectSeq(nodes, has_font)
        keyed == [i \in 1..Len(fonted) |->
                    ("group_key" :> << fonted[i]["parent_id"],
                                       fonted[i]["widget_type"] >>)
                      @@ fonted[i]]
        groups == keys_in_order(keyed, "group_key")
    IN  ConcatAll([g \in 1..Len(groups) |->
            LET siblings == group_of(keyed, "group_key", groups[g])
                fonts == { font_key(siblings[i]) : i \in 1..Len(siblings) }
            IN  IF Len(siblings) < 2 \/ Cardinality(fonts) <= 1 THEN << >>
                ELSE << [rule_id |-> "inconsistent_font", severity |-> "low",
                         widget_id |-> siblings[1]["test_id"],
                         related_widget_id |-> siblings[2]["test_id"]] >>])

\* the buttons of the snapshots: shown or hidden, in one of two font sizes and
\* one of two widths
VisibilityKinds ==
    { [visibility |-> v, font_size |-> s, width |-> w] :
        v \in BOOLEAN, s \in { 12, 14 }, w \in { 100, 200 } }

visibility_heap(kids) ==
    [a \in 1..(Len(kids) + 1) |->
        IF a = 1
        THEN SizedNode("root", "CTk", None, << 0, 0, 400, 300 >>, "",
                       [i \in 1..Len(kids) |-> i + 1])
        ELSE kids[a - 1]
               @@ [font_family |-> "Arial", font_weight |-> "normal"]
               @@ SizedNode(ChildIds[a - 1], "CTkButton", "root",
                            << 0, 40 * (a - 1), 0, 30 >>, "Help", << >>)]

VisibilitySnapshots ==
    { visibility_heap(kids) : kids \in SeqsUpTo(VisibilityKinds, MaxSiblings) }

InitVisibility ==
    /\ severity_deductions = DefaultDeductions
    /\ ScoreIdle
    /\ ReportIdle
    /\ RulesIdle
    /\ RegistryIdle
    /\ RunnerIdle
    /\ CheckIdle
    /\ TabIdle
    /\ config_attrs \in { ValidatorConfigFields,
                          ValidatorConfigFields \cup ExtraAttrs }
    /\ heap \in VisibilitySnapshots
    /\ widget_tree = 1
    /\ tree_before = heap
    /\ flat = << >>
    /\ checker_outcome = [c \in Components |-> "not run"]
    /\ settings_read = {}

\* consistency_checker.py:181-229 on the snapshot
CheckInconsistentFonts ==
    /\ check_result' = Checked("_check_inconsistent_fonts", 0,
                               check_inconsistent_fonts(flat_list))
    /\ UNCHANGED << tabVars, severity_deductions, scoreVars, reportVars, ruleVars,
                    registryVars, passVars, runnerVars >>

NextVisibility ==
    \/ CheckButtonSizes
    \/ CheckInconsistentFonts

SpecVisibility == InitVisibility /\ [][NextVisibility]_vars

\* what the latest consistency check gives on a list of nodes
SameConsistencyCheckOn(nodes) ==
    CASE check_result.check = "_check_sibling_size_consistency" ->
            check_sibling_size_consistency(nodes, BUTTON_TYPES,
                "inconsistent_button_size", check_result.setting)
      [] check_result.check = "_check_inconsistent_fonts" ->
            check_inconsistent_fonts(nodes)

\* C24: an invisible node is never the subject (widget_id or
\* related_widget_id) of a consistency issue, and the issues of a sub-check
\* (sibling sizes, fonts) are those of the snapshot without its invisible
\* nodes.
C24_VisibleSiblingsOnly ==
    check_result.check \in { "_check_sibling_size_consistency",
                             "_check_inconsistent_fonts" } =>
        /\ \A k \in 1..Len(check_result.value) :
              \A i \in 1..Len(flat_list) :
                  ~flat_list[i].visibility =>
                      /\ check_result.value[k].widget_id # flat_list[i].test_id
                      /\ check_result.value[k].related_widget_id
                            # flat_list[i].test_id
        /\ check_result.value = SameConsistencyCheckOn(visible_of(flat_list))

\* ------------------------------------ specification: the padding check

\* a variant of the test of the paddings that counts the nonzero values only
varied_padding_nonzero_only(paddings_x) ==
    Cardinality({ paddings_x[i] : i \in 1..Len(paddings_x) } \ { 0 }) > 2

\* consistency_checker.py:250-253: len(set(paddings_x)) > 2 and
\* max(paddings_x) > 0
varied_padding(paddings_x) ==
    /\ paddings_x # << >>
    /\ Cardinality({ paddings_x[i] : i \in 1..Len(paddings_x) }) > 2
    /\ \E i \in 1..Len(paddings_x) : paddings_x[i] > 0

\* consistency_checker.py:247-248: pad.get("padx", 0), the padding kept as the
\* node's "padx"
padx_of(node) == IF "padx" \in DOMAIN node THEN node["padx"] ELSE 0

\* consistency_checker.py:237-273: _walk from the node at an address
RECURSIVE padding_walk(_, _)
padding_walk(h, a) ==
    LET children == children_of(h[a])
        paddings_x == [i \in 1..Len(children) |-> padx_of(h[children[i]])]
        below == ConcatAll([i \in 1..Len(children) |->
                              padding_walk(h, children[i])])
    IN  IF Len(children) < 3 THEN below
        ELSE (IF varied_padding(paddings_x)
              THEN << [rule_id |-> "inconsistent_padding", severity |-> "low",
                       widget_id |-> h[a]["test_id"],
                       related_widget_id |-> None] >>
              ELSE << >>) \o below

\* consistency_checker.py:231-276
check_inconsistent_padding(h, a) == padding_walk(h, a)

\* the horizontal paddings of the children of a snapshot; Null for a child
\* without a padding
PaddingChoices == { << 0 >>, << 5 >>, << 10 >>, << 20 >>, Null }

\* a window whose children, or whose one frame's children, have the paddings
padding_heap(framed, pads) ==
    LET first == IF framed THEN 2 ELSE 1
        holder == IF framed THEN "f1" ELSE "root"
        kid_addrs == [i \in 1..Len(pads) |-> first + i]
        kid(i) ==
            (IF pads[i] = Null THEN << >> ELSE ("padx" :> pads[i][1]))
              @@ SizedNode(ChildIds[i], "CTkButton", holder,
                           << 0, 40 * i, 100, 30 >>, "Help", << >>)
    IN  [a \in 1..(Len(pads) + first) |->
            IF a = 1
            THEN SizedNode("root", "CTk", None, << 0, 0, 400, 300 >>, "",
                           IF framed THEN << 2 >> ELSE kid_addrs)
            ELSE IF framed /\ a = 2
            THEN SizedNode("f1", "CTkFrame", "root", << 0, 0, 400, 300 >>, "",
                           kid_addrs)
            ELSE kid(a - first)]

PaddingSnapshots ==
    { padding_heap(framed, pads) :
        framed \in BOOLEAN, pads \in SeqsUpTo(PaddingChoices, MaxSiblings) }

InitPadding ==
    /\ severity_deductions = DefaultDeductions
    /\ ScoreIdle
    /\ ReportIdle
    /\ RulesIdle
    /\ RegistryIdle
    /\ RunnerIdle
    /\ CheckIdle
    /\ TabIdle
    /\ config_attrs = ValidatorConfigFields
    /\ heap \in PaddingSnapshots
    /\ widget_tree = 1
    /\ tree_before = heap
    /\ flat = << >>
    /\ checker_outcome = [c \in Components |-> "not run"]
    /\ settings_read = {}

\* consistency_checker.py:231-276 on the snapshot's tree
CheckInconsistentPadding ==
    /\ check_result' = Checked("_check_inconsistent_padding", 0,
                               check_inconsistent_padding(heap, widget_tree))
    /\ UNCHANGED << tabVars, severity_deductions, scoreVars, reportVars, ruleVars,
                    registryVars, passVars, runnerVars >>

NextPadding == CheckInconsistentPadding

SpecPadding == InitPadding /\ [][NextPadding]_vars

\* the issues of the latest check that name the node at an address
padding_issues_of(a) ==
    { k \in 1..Len(check_result.value) :
        /\ check_result.value[k].widget_id = heap[a].test_id
        /\ check_result.value[k].rule_id = "inconsistent_padding"
        /\ check_result.value[k].severity = "low" }

\* the horizontal paddings of the children of the node at an address
child_paddings(a) ==
    { IF "padx" \in DOMAIN heap[c] THEN heap[c].padx ELSE 0 :
        c \in { heap[a].children[i] : i \in 1..Len(heap[a].children) } }

\* the statement of C25 for the values left out of the count
padding_statement(not_counted) ==
    check_result.check = "_check_inconsistent_padding" =>
        /\ \A a \in DOMAIN heap :
              /\ Cardinality(padding_issues_of(a)) <= 1
              /\ padding_issues_of(a) # {} <=>
                    /\ Len(heap[a].children) >= 3
                    /\ Cardinality(child_paddings(a) \ not_counted) > 2
        /\ \A k \in 1..Len(check_result.value) :
              \E a \in DOMAIN heap : k \in padding_issues_of(a)

\* C25 as stated: a container is flagged inconsistent_padding (low, once) iff
\* it has at least 3 children and their horizontal paddings contain more than
\* 2 distinct nonzero values; two distinct nonzero values, with or without
\* children at padding 0, are not flagged.
C25_DistinctNonzeroPaddings == padding_statement({ 0 })

\* C25: the same with the padding 0 counted as a value: a container is
\* flagged iff it has at least 3 children and their horizontal paddings
\* contain more than 2 distinct values.
C25_DistinctPaddings == padding_statement({})

\* a frame whose children have the paddings 0, 5 and 10 has been flagged
C25_Witness ==
    /\ check_result.check = "_check_inconsistent_padding"
    /\ \E a \in DOMAIN heap :
          /\ child_paddings(a) = { 0, 5, 10 }
          /\ padding_issues_of(a) # {}

\* ------------------------------------ specification: the casing of buttons

\* ux_analyzer.py:17-50 (the texts are left out)
UXIssue(rule_id, severity, widget_id, related_widget_id) ==
    [rule_id |-> rule_id, severity |-> severity, widget_id |-> widget_id,
     related_widget_id |-> related_widget_id]

\* the texts of the buttons of the snapshots
ButtonTexts == { "OK", "save", "Save As", "Save file", "saveAs", " ok ", "x" }

\* str.strip() of a button text
strip(text) == IF text = " ok " THEN "ok" ELSE text

\* len(text) < 2 of a stripped button text
shorter_than_2(text) == text \in { "", "x" }

\* ux_analyzer.py:651-669 on the stripped button texts
classify_casing(text) ==
    CASE text = "OK" -> "UPPERCASE"
      [] text \in { "save", "ok" } -> "lowercase"
      [] text = "Save As" -> "Title Case"
      [] text = "Save file" -> "Sentence case"
      [] text = "saveAs" -> "Mixed"

\* max(casings, key=...): the first key of the dict, in its order, whose list
\* is the longest
RECURSIVE first_longest(_, _)
first_longest(styles, size) ==
    IF Len(styles) = 1 THEN styles[1]
    ELSE LET later == first_longest(Tail(styles), size)
         IN  IF size[later] > size[styles[1]] THEN later ELSE styles[1]

\* ux_analyzer.py:240-290: one issue, which names the first button that is
\* not of the majority style
check_inconsistent_button_casing(nodes) ==
    LET labelled(node) ==
            /\ node["widget_type"] \in BUTTON_TYPES
            /\ ~shorter_than_2(strip(node["text"]))
        buttons == SelectSeq(nodes, labelled)
        styled == [i \in 1..Len(buttons) |->
                     ("casing" :> classify_casing(strip(buttons[i]["text"])))
                       @@ buttons[i]]
        casings == keys_in_order(styled, "casing")
        size == [s \in { casings[i] : i \in 1..Len(casings) } |->
                    Len(group_of(styled, "casing", s))]
        majority_style == first_longest(casings, size)
        minority == SelectSeq(styled,
                              LAMBDA node : node["casing"] # majority_style)
        ordered == ConcatAll([c \in 1..Len(casings) |->
                      group_of(minority, "casing", casings[c])])
    IN  IF Len(casings) > 1 /\ ordered # << >>
        THEN << UXIssue("inconsistent_button_casing", "low",
                        ordered[1]["test_id"], None) >>
        ELSE << >>

\* the widgets of the snapshots: a button of each text, and a label
CasingKinds ==
    { [widget_type |-> "CTkButton", text |-> t] : t \in ButtonTexts }
      \cup { [widget_type |-> "CTkLabel", text |-> "OK"] }

casing_heap(kids) ==
    [a \in 1..(Len(kids) + 1) |->
        IF a = 1
        THEN SizedNode("root", "CTk", None, << 0, 0, 400, 300 >>, "",
                       [i \in 1..Len(kids) |-> i + 1])
        ELSE SizedNode(ChildIds[a - 1], kids[a - 1].widget_type, "root",
                       << 0, 40 * (a - 1), 100, 30 >>, kids[a - 1].text,
                       << >>)]

CasingSnapshots == { casing_heap(kids) : kids \in SeqsUpTo(CasingKinds, MaxSiblings) }

InitCasing ==
    /\ severity_deductions = DefaultDeductions
    /\ ScoreIdle
    /\ ReportIdle
    /\ RulesIdle
    /\ RegistryIdle
    /\ RunnerIdle
    /\ CheckIdle
    /\ TabIdle
    /\ config_attrs = ValidatorConfigFields
    /\ heap \in CasingSnapshots
    /\ widget_tree = 1
    /\ tree_before = heap
    /\ flat = << >>
    /\ checker_outcome = [c \in Components |-> "not run"]
    /\ settings_read = {}

\* ux_analyzer.py:240-290 on the snapshot
CheckInconsistentButtonCasing ==
    /\ check_result' = Checked("_check_inconsistent_button_casing", 0,
                               check_inconsistent_button_casing(flat_list))
    /\ UNCHANGED << tabVars, severity_deductions, scoreVars, reportVars, ruleVars,
                    registryVars, passVars, runnerVars >>

NextCasing == CheckInconsistentButtonCasing

SpecCasing == InitCasing /\ [][NextCasing]_vars

\* the casing style of a label as the spec's character classes give it
stated_style(text) ==
    CASE text = "OK" -> "UPPERCASE"
      [] text \in { "save", " ok " } -> "lowercase"
      [] text = "Save As" -> "Title Case"
      [] text = "Save file" -> "Sentence case"
      [] text = "saveAs" -> "Mixed"

\* the positions in the flat list of the buttons with a label of two
\* characters or more
LabelledButtons ==
    { i \in 1..Len(flat_list) :
        /\ flat_list[i].widget_type \in { "CTkButton", "TButton", "Button" }
        /\ flat_list[i].text \notin { "", "x" } }

StylesInUse == { stated_style(flat_list[i].text) : i \in LabelledButtons }

ButtonsOfStyle(s) ==
    { i \in LabelledButtons : stated_style(flat_list[i].text) = s }

\* the styles no other style has more buttons than
MajorityStyles ==
    { s \in StylesInUse :
        \A t \in StylesInUse :
            Cardinality(ButtonsOfStyle(t)) <= Cardinality(ButtonsOfStyle(s)) }

\* C26: when the button labels fall into more than one casing style, the ids
\* carried by the inconsistent_button_casing issues are exactly the ids of
\* the buttons not of the majority style (a majority style, when several
\* styles have the most buttons); with one style there is no issue.
C26_EveryMinorityButtonFlagged ==
    check_result.check = "_check_inconsistent_button_casing" =>
        IF Cardinality(StylesInUse) > 1
        THEN \E m \in MajorityStyles :
                { check_result.value[k].widget_id :
                    k \in 1..Len(check_result.value) }
                  = { flat_list[i].test_id :
                        i \in LabelledButtons \ ButtonsOfStyle(m) }
        ELSE check_result.value = << >>

\* ------------------------------------ specification: deep single nesting

\* the longest chain of nested widgets below the window
MaxChain == 5

\* ux_analyzer.py:74-78
CONTAINER_TYPES ==
    { "CTk", "CTkToplevel", "CTkFrame", "CTkScrollableFrame", "CTkTabview",
      "TFrame", "Frame", "LabelFrame", "Toplevel", "Tk" }

\* a variant of the wrapper test that takes every container with one child
is_single_container_of_any_type(node) ==
    /\ node["widget_type"] \in CONTAINER_TYPES
    /\ Len(children_of(node)) = 1

\* ux_analyzer.py:609-614
is_single_container(node) ==
    /\ node["widget_type"] \in CONTAINER_TYPES
    /\ Len(children_of(node)) = 1
    /\ node["widget_type"] \notin { "CTk", "Tk", "Toplevel", "CTkToplevel",
                                    "CTkScrollableFrame", "CTkTabview" }

\* ux_analyzer.py:606-642: _walk(node, single_depth, chain_start), the issues
\* in the order they are appended
RECURSIVE nesting_walk(_, _, _, _)
nesting_walk(h, a, single_depth, chain_start) ==
    LET node == h[a]
        children == children_of(node)
        new_depth == single_depth + 1
        start == IF chain_start = None THEN node["test_id"] ELSE chain_start
    IN  IF is_single_container(node)
        THEN (IF new_depth >= 3
              THEN << UXIssue("deep_single_nesting", "low", node["test_id"],
                              start) >>
              ELSE << >>)
             \o ConcatAll([i \in 1..Len(children) |->
                             nesting_walk(h, children[i], new_depth, start)])
        ELSE ConcatAll([i \in 1..Len(children) |->
                          nesting_walk(h, children[i], 0, None)])

\* ux_analyzer.py:597-645
check_deep_single_nesting(h, a) == nesting_walk(h, a, 0, None)

\* the widgets of a chain: a frame around the next widget, a frame around the
\* next widget and a button, a scrollable frame and a label frame around the
\* next widget
ChainKinds ==
    { [widget_type |-> "CTkFrame", forked |-> FALSE],
      [widget_type |-> "CTkFrame", forked |-> TRUE],
      [widget_type |-> "CTkScrollableFrame", forked |-> FALSE],
      [widget_type |-> "LabelFrame", forked |-> FALSE] }

ChainIds == << "n1", "n2", "n3", "n4", "n5", "n6", "n7" >>
ForkIds == << "b1", "b2", "b3", "b4", "b5", "b6", "b7" >>

\* the number of forked widgets among the first i of a chain
forks_before(chain, i) == Cardinality({ j \in 1..i : chain[j].forked })

\* a window holding the chain: the window at 1, the chain's widgets at 2..n+1,
\* the button inside the last at n+2, the forks' buttons after it
chain_heap(chain) ==
    LET n == Len(chain)
        parent_of(i) == IF i = 1 THEN "root" ELSE ChainIds[i - 1]
    IN  [a \in 1..(n + 2 + forks_before(chain, n)) |->
            IF a = 1
            THEN SizedNode("root", "CTk", None, << 0, 0, 400, 300 >>, "", << 2 >>)
            ELSE IF a <= n + 1
            THEN SizedNode(ChainIds[a - 1], chain[a - 1].widget_type,
                           parent_of(a - 1), << 0, 0, 400, 300 >>, "",
                           IF chain[a - 1].forked
                           THEN << a + 1, n + 2 + forks_before(chain, a - 1) >>
                           ELSE << a + 1 >>)
            ELSE IF a = n + 2
            THEN SizedNode("leaf", "CTkButton", parent_of(n + 1),
                           << 0, 0, 100, 30 >>, "Help", << >>)
            ELSE LET i == CHOOSE j \in 1..n :
                            chain[j].forked /\ forks_before(chain, j) = a - n - 2
                 IN  SizedNode(ForkIds[i], "CTkButton", ChainIds[i],
                               << 0, 40, 100, 30 >>, "Help", << >>)]

ChainSnapshots == { chain_heap(chain) : chain \in SeqsUpTo(ChainKinds, MaxChain) }

InitNesting ==
    /\ severity_deductions = DefaultDeductions
    /\ ScoreIdle
    /\ ReportIdle
    /\ RulesIdle
    /\ RegistryIdle
    /\ RunnerIdle
    /\ CheckIdle
    /\ TabIdle
    /\ config_attrs = ValidatorConfigFields
    /\ heap \in ChainSnapshots
    /\ widget_tree = 1
    /\ tree_before = heap
    /\ flat = << >>
    /\ checker_outcome = [c \in Components |-> "not run"]
    /\ settings_read = {}

\* ux_analyzer.py:597-645 on the snapshot's tree
CheckDeepSingleNesting ==
    /\ check_result' = Checked("_check_deep_single_nesting", 0,
                               check_deep_single_nesting(heap, widget_tree))
    /\ UNCHANGED << tabVars, severity_deductions, scoreVars, reportVars, ruleVars,
                    registryVars, passVars, runnerVars >>

NextNesting == CheckDeepSingleNesting

SpecNesting == InitNesting /\ [][NextNesting]_vars

\* a single-child wrapper: a frame (not a window, a scrollable frame or a tab
\* view) with exactly one child
Wrapper(a) ==
    /\ heap[a].widget_type \in { "CTkFrame", "TFrame", "Frame", "LabelFrame" }
    /\ Len(heap[a].children) = 1

\* the address of the parent of a node other than the window
ParentAddr(a) ==
    CHOOSE p \in DOMAIN heap :
        \E i \in 1..Len(heap[p].children) : heap[p].children[i] = a

\* the number of consecutive wrappers on the ancestor path that end with the
\* node, the node included
RECURSIVE RunLength(_)
RunLength(a) ==
    IF ~Wrapper(a) THEN 0
    ELSE IF a = widget_tree THEN 1
    ELSE 1 + RunLength(ParentAddr(a))

\* the first node of the run a wrapper ends
RECURSIVE RunStart(_)
RunStart(a) ==
    IF a = widget_tree \/ ~Wrapper(ParentAddr(a)) THEN a
    ELSE RunStart(ParentAddr(a))

nesting_issues_of(a) ==
    { k \in 1..Len(check_result.value) :
        /\ check_result.value[k].widget_id = heap[a].test_id
        /\ check_result.value[k].rule_id = "deep_single_nesting"
        /\ check_result.value[k].severity = "low" }

\* C27: a deep_single_nesting issue is emitted for a node iff it is a
\* single-child wrapper and at least the third consecutive one on its
\* ancestor path; the issue's related id is the first node of the run; a run
\* of k wrappers gives max(0, k - 2) issues; a node that is no wrapper resets
\* the length to 0 for its subtree.
C27_DeepSingleNesting ==
    check_result.check = "_check_deep_single_nesting" =>
        /\ \A a \in DOMAIN heap :
              /\ nesting_issues_of(a) # {} <=> RunLength(a) >= 3
              /\ Cardinality(nesting_issues_of(a)) <= 1
              /\ \A k \in nesting_issues_of(a) :
                    check_result.value[k].related_widget_id
                      = heap[RunStart(a)].test_id
        /\ Len(check_result.value)
              = Cardinality({ a \in DOMAIN heap : RunLength(a) >= 3 })
        /\ \A a \in DOMAIN heap :
              (Wrapper(a) /\ RunLength(a) = 1 /\ a # widget_tree
                 /\ ~Wrapper(ParentAddr(a))) =>
                  \A b \in DOMAIN heap :
                      (Wrapper(b) /\ RunStart(b) = a) =>
                          Cardinality(nesting_issues_of(b))
                            = (IF RunLength(b) >= 3 THEN 1 ELSE 0)

\* a run of four wrappers that starts below a scrollable frame has given two
\* issues, both related to the first wrapper of the run
C27_Witness ==
    /\ check_result.check = "_check_deep_single_nesting"
    /\ Len(check_result.value) = 2
    /\ \E a \in DOMAIN heap :
          /\ RunLength(a) = 4
          /\ heap[ParentAddr(RunStart(a))].widget_type = "CTkScrollableFrame"
          /\ \A k \in 1..2 :
                check_result.value[k].related_widget_id
                  = heap[RunStart(a)].test_id


\* ---------------------------------------------------------------------
\* EventSimulator: the recorded results and the calls that were made
\* ---------------------------------------------------------------------

\* event_simulator.py:29-43, an InteractionResult with its action and id
interaction_result(action, widget_id, success) ==
    [action |-> action, widget_id |-> widget_id, success |-> success]

\* event_simulator.py:312-331, the failure is built and not recorded
fail(action, widget_id) == interaction_result(action, widget_id, FALSE)

\* event_simulator.py:299-308
resolve(widget_id) == DictGet(id_to_widget, widget_id)

\* what a call finds of its widget: its state option, or a destroyed widget
\* whose Tk calls raise TclError
WidgetConditions == { "normal", "disabled", "destroyed" }

\* what Tab finds: no registered widget gives a root, nothing has the focus,
\* the event raises TclError, or the focus moves
TabConditions == { "no root", "no focus", "destroyed", "normal" }

\* the ids a script names: one that may be registered and one that never is
SimulatedIds == { "a", "z" }

\* event_simulator.py:85-130, the result and whether it was appended
click_outcome(widget_id, condition) ==
    IF resolve(widget_id) = None
    THEN [result |-> fail("click", widget_id), recorded |-> FALSE]
    ELSE IF condition = "disabled"
    THEN [result |-> interaction_result("click", widget_id, TRUE),
          recorded |-> TRUE]
    ELSE IF condition = "destroyed"
    THEN [result |-> fail("click", widget_id), recorded |-> TRUE]
    ELSE [result |-> interaction_result("click", widget_id, TRUE),
          recorded |-> TRUE]

\* event_simulator.py:132-158
focus_outcome(widget_id, condition) ==
    IF resolve(widget_id) = None
    THEN [result |-> fail("focus", widget_id), recorded |-> FALSE]
    ELSE IF condition = "destroyed"
    THEN [result |-> fail("focus", widget_id), recorded |-> TRUE]
    ELSE [result |-> interaction_result("focus", widget_id, TRUE),
          recorded |-> TRUE]

\* event_simulator.py:160-220
type_text_outcome(widget_id, condition) ==
    IF resolve(widget_id) = None
    THEN [result |-> fail("type_text", widget_id), recorded |-> FALSE]
    ELSE IF condition = "disabled"
    THEN [result |-> interaction_result("type_text", widget_id, TRUE),
          recorded |-> TRUE]
    ELSE IF condition = "destroyed"
    THEN [result |-> fail("type_text", widget_id), recorded |-> TRUE]
    ELSE [result |-> interaction_result("type_text", widget_id, TRUE),
          recorded |-> TRUE]

\* event_simulator.py:272-297
hover_outcome(widget_id, condition) ==
    IF resolve(widget_id) = None
    THEN [result |-> fail("hover", widget_id), recorded |-> FALSE]
    ELSE IF condition = "destroyed"
    THEN [result |-> fail("hover", widget_id), recorded |-> TRUE]
    ELSE [result |-> interaction_result("hover", widget_id, TRUE),
          recorded |-> TRUE]

\* event_simulator.py:222-270 and 384-395; from_widget_id None is no argument
tab_outcome(from_widget_id, condition) ==
    LET source_id ==
            IF from_widget_id = None THEN "<current_focus>" ELSE from_widget_id
    IN  IF from_widget_id # None /\ resolve(from_widget_id) = None
        THEN [result |-> fail("tab", source_id), recorded |-> FALSE]
        ELSE IF from_widget_id # None /\ condition = "destroyed"
        THEN [result |-> fail("tab", source_id), recorded |-> TRUE]
        ELSE IF id_to_widget = << >> \/ condition = "no root"
        THEN [result |-> fail("tab", source_id), recorded |-> FALSE]
        ELSE IF condition = "no focus"
        THEN [result |-> fail("tab", source_id), recorded |-> FALSE]
        ELSE IF condition = "destroyed"
        THEN [result |-> fail("tab", source_id), recorded |-> TRUE]
        ELSE [result |-> interaction_result("tab", source_id, TRUE),
              recorded |-> TRUE]

\* the simulator is built on an empty registry or on one registered widget
InitSimulator ==
    /\ severity_deductions = DefaultDeductions
    /\ ScoreIdle
    /\ ReportIdle
    /\ RulesIdle
    /\ PassIdle
    /\ RunnerIdle
    /\ CheckIdle
    /\ TabIdle
    /\ id_to_widget \in { << >>, "a" :> "w1" }
    /\ widget_id_to_test_id =
          IF id_to_widget = << >> THEN << >> ELSE "w1" :> "a"
    /\ registry_call = [op |-> "__init__", test_id |-> None, widget |-> None,
                        raised |-> None]
    /\ registry_before = [id_to_widget |-> << >>,
                          widget_id_to_test_id |-> << >>]

\* one call of an action: self._results gets the result when the code
\* appends it, and check_result keeps every result the calls returned since
\* the last clear_results
called(action, outcome) ==
    /\ Len(check_result.value) < MaxAttempts
    /\ interaction_results' =
          IF outcome.recorded
          THEN Append(interaction_results, outcome.result)
          ELSE interaction_results
    /\ check_result' =
          Checked(action, 0, Append(check_result.value, outcome.result))
    /\ UNCHANGED << layout_violations, contrast_issues, accessibility_issues,
                    ux_issues, consistency_issues, rule_violations, clock,
                    overall_score, report, prev_report >>
    /\ UNCHANGED << tabVars, severity_deductions, scoreVars, ruleVars,
                    registryVars, passVars, runnerVars >>

\* event_simulator.py:85-130
click ==
    \E widget_id \in SimulatedIds, condition \in WidgetConditions :
        called("click", click_outcome(widget_id, condition))

\* event_simulator.py:132-158
focus ==
    \E widget_id \in SimulatedIds, condition \in WidgetConditions :
        called("focus", focus_outcome(widget_id, condition))

\* event_simulator.py:160-220
type_text ==
    \E widget_id \in SimulatedIds, condition \in WidgetConditions :
        called("type_text", type_text_outcome(widget_id, condition))

\* event_simulator.py:222-270
tab ==
    \E from_widget_id \in SimulatedIds \cup { None },
       condition \in TabConditions :
        called("tab", tab_outcome(from_widget_id, condition))

\* event_simulator.py:272-297
hover ==
    \E widget_id \in SimulatedIds, condition \in WidgetConditions :
        called("hover", hover_outcome(widget_id, condition))

\* event_simulator.py:81-83
clear_results ==
    /\ interaction_results' = << >>
    /\ check_result' = Checked("clear_results", 0, << >>)
    /\ UNCHANGED << layout_violations, contrast_issues, accessibility_issues,
                    ux_issues, consistency_issues, rule_violations, clock,
                    overall_score, report, prev_report >>
    /\ UNCHANGED << tabVars, severity_deductions, scoreVars, ruleVars,
                    registryVars, passVars, runnerVars >>

NextSimulator ==
    \/ click
    \/ focus
    \/ type_text
    \/ tab
    \/ hover
    \/ clear_results

SpecSimulator == InitSimulator /\ [][NextSimulator]_vars

\* the results the calls returned since the last clear_results, in call order
returned_since_clear == check_result.value

\* C28: after any sequence of click, focus, type_text, hover and tab calls
\* interleaved with clear_results, results holds exactly the results of the
\* calls made since the last clear_results, one per call and in call order,
\* whether the call succeeded or failed; a call naming an id that is not in
\* the registry is among them with success = false and so the interaction
\* score is below 100.
C28_OneResultPerAction ==
    /\ interaction_results = returned_since_clear
    /\ (\E i \in 1..Len(returned_since_clear) :
            /\ returned_since_clear[i].widget_id \notin DOMAIN id_to_widget
            /\ returned_since_clear[i].widget_id # "<current_focus>")
       => compute_interaction_score(interaction_results) < 10000


\* C29: after any sequence of register, unregister and clear calls the two
\* lookups are mutually inverse: get_id(get(t)) = t for every registered
\* test_id t, and get(t) is w for every widget w with get_id(w) = t.
C29_LookupsInverse ==
    /\ \A t \in DOMAIN id_to_widget :
          registry_get_id(registry_get(t)) = t
    /\ \A w \in Widgets :
          registry_get_id(w) # None =>
              registry_get(registry_get_id(w)) = w


\* ---------------------------------------------------------------------
\* the tab order over the registries that register, unregister and clear
\* can reach
\* ---------------------------------------------------------------------

\* the two widgets as a shown button or a shown label
RegisteredKinds ==
    { Live("CTkButton", "yes", "normal", 10, 10),
      Live("CTkLabel", "yes", "normal", 0, 0) }

\* an empty registry, two live widgets and any forward-focus function on them
InitTabRegistry ==
    /\ severity_deductions = DefaultDeductions
    /\ ScoreIdle
    /\ ReportIdle
    /\ RulesIdle
    /\ RegistryIdle
    /\ PassIdle
    /\ RunnerIdle
    /\ CheckIdle
    /\ live \in [Widgets -> RegisteredKinds]
    /\ focus_first \in Widgets \cup { None }
    /\ focus_next \in [Widgets -> Widgets \cup { None }]
    /\ tab_pc = "idle"
    /\ tab_current = None
    /\ tab_visited = << >>
    /\ tab_visited_ids = {}
    /\ tab_visits = << >>
    /\ tab_result = << >>

\* the registry is filled and emptied before the tab order is asked for
NextTabRegistry ==
    \/ tab_pc = "idle" /\ register
    \/ tab_pc = "idle" /\ unregister
    \/ tab_pc = "idle" /\ clear
    \/ TabStart
    \/ TabLoop
    \/ TabReturn

SpecTabRegistry == InitTabRegistry /\ [][NextTabRegistry]_vars

\* C30: the list compute_tab_order returns, by either strategy, never holds
\* the same test id twice, for every registry that register, unregister and
\* clear can reach and every forward-focus chain over the live widgets.
C30_NoDuplicateIds ==
    tab_pc = "returned" =>
        \A i, j \in 1..Len(tab_result) :
            tab_result[i] = tab_result[j] => i = j

\* one widget is registered under both ids and a returned order holds both
C30_Witness ==
    /\ tab_pc = "returned"
    /\ DOMAIN id_to_widget = TestIds
    /\ id_to_widget["a"] = id_to_widget["b"]
    /\ Len(tab_result) = 2

====
